---------------------------- MODULE Spec2Model ----------------------------
(***************************************************************************)
(* A state-machine model of the LinkedIn messaging tool-call surface.      *)
(*                                                                         *)
(* The repository holds two builds of the tool surface:                    *)
(*   "app"  src/app/toolcalls.py               (get_current_conversations, *)
(*          extract_linkedin_info, ...)                                    *)
(*   "lu"   src/linkedln-use/app/toolcalls.py  (get_current_threads,       *)
(*          list_threads, enter_thread, reply/forward/compose, ...)        *)
(* A process runs one of them; the variable build says which.  Each tool   *)
(* call is one atomic action (the handlers are awaited one at a time by    *)
(* their caller); what the browser answers (timeouts, API payloads, what a *)
(* reload renders) is drawn with \E from small sets.                       *)
(***************************************************************************)
EXTENDS Integers, Sequences, FiniteSets, TLC

(* ------------------------------ bounds -------------------------------- *)

\* Longest conversation list the page renders.
MaxCards == 2

\* Largest limit argument a caller passes (the smallest is -1).
MaxLimit == 2

\* Longest payload of the scripted data-API call.
MaxApi == 2

\* Most messages a thread holds.
MaxMsgs == 1

\* The most cards the conversation list holds after a reload.
MaxReloaded == 1

\* Most tool calls one run makes.
MaxCalls == 2

(* ------------------------- program constants -------------------------- *)

\* limit: int = 30, the default of the enumeration.
DefaultLimit == 30

\* retries = 5, the polling loop of get_current_threads.
Retries == 5

(* --------------------------- Python values ---------------------------- *)

\* Python's None.
None == "None"

\* The outcome of an extraction whose selector matches no element, or whose
\* evaluation raises: eval_on_selector raises in both cases.
Missing == "Missing"

\* Python truthiness of an Optional[str].
Truthy(v) == v # None /\ v # ""

\* a or b
Or(a, b) == IF Truthy(a) THEN a ELSE b

\* x = ...; F: the value of F with x in it.
Bind(x, F(_)) == F(x)

Min(a, b) == IF a <= b THEN a ELSE b

Max(a, b) == IF a >= b THEN a ELSE b

\* seq[:n], Python's slice: a negative n counts from the end.
PySlice(seq, n) ==
    LET k == IF n >= 0 THEN Min(n, Len(seq)) ELSE Max(0, Len(seq) + n)
    IN  SubSeq(seq, 1, k)

(* ------------------------ the response envelope ----------------------- *)

\* refine_status with its test the wrong way round.
refine_status_inverted(m) ==
    IF m.error = None THEN [m EXCEPT !.success = FALSE] ELSE m

\* ResponseMessage.refine_status, the model validator run after construction.
refine_status(m) ==
    IF m.error # None THEN [m EXCEPT !.success = FALSE] ELSE m

\* ResponseMessage(result=..., error=..., success=...).
ResponseMessage(result, error, success) ==
    refine_status([result |-> result, error |-> error, success |-> success])

\* response_model(result=r): error and success keep their defaults.
Ok(r) == ResponseMessage(r, None, TRUE)

\* response_model(error=e, success=False).
Err(e) == ResponseMessage(None, e, FALSE)

\* response_model(error=f"Unknown tool call: {tool_name}", success=False).
unknown_tool(tool_name) == Err("Unknown tool call: " \o tool_name)


(* ------------------------- the rendered page -------------------------- *)

\* The card selectors tried by get_current_conversations, in its order
\* (the reload pass tries the first four only).
CardSelectors ==
    << "div[data-test-id=\"messaging-thread\"]",
       ".msg-conversation-card__message",
       "div.msg-conversation-listitem",
       ".msg-conversation-card",
       ".msg-overlay-list-bubble__convo-item" >>

\* The card selectors of the pass after the reload.
ReloadCardSelectors == SubSeq(CardSelectors, 1, 4)

\* The participant-name candidates, in declaration order.
ParticipantSelectors ==
    << "[data-test-id=\"thread-participant-name\"]",
       ".msg-conversation-card__participant-names",
       ".msg-conversation-listitem__participant-names",
       ".msg-overlay-bubble-header__title" >>

\* The message-preview candidates, in declaration order.
PreviewSelectors ==
    << "[data-test-id=\"thread-preview-text\"]",
       ".msg-conversation-card__message-snippet",
       ".msg-conversation-listitem__message-snippet",
       ".msg-overlay-list-bubble__message-snippet" >>

\* The timestamp candidates, in declaration order.
TimestampSelectors ==
    << "[data-test-id=\"thread-timestamp\"]",
       ".msg-conversation-card__timestamp",
       ".msg-conversation-listitem__timestamp" >>

\* The timestamp selector of get_current_threads.
ThreadTimestampSelector == ".msg-conversation-card__time-stamp"

\* The attributes get_current_conversations reads a conversation id from.
IdAttributes ==
    << "data-conversation-id", "data-thread-id", "data-test-conversation-id" >>

Range(f) == {f[x] : x \in DOMAIN f}

FieldSelectors ==
    Range(ParticipantSelectors) \cup Range(PreviewSelectors)
        \cup Range(TimestampSelectors) \cup {ThreadTimestampSelector}

\* A card's texts: what eval_on_selector(sel, "el => el.innerText") gives for
\* each selector; a selector not listed matches nothing in the card.
Texts(given) ==
    [s \in FieldSelectors |-> IF s \in DOMAIN given THEN given[s] ELSE Missing]

\* A card of the conversation list: cls is the card selector it matches,
\* idattr the attribute (or "href", the thread link) that carries its
\* conversation id cid, html its outerHTML, att whether it shows the
\* attachment icon.
Card(cls, idattr, cid, given, html, att) ==
    [cls |-> cls, idattr |-> idattr, cid |-> cid, text |-> Texts(given),
     html |-> html, att |-> att]

\* Conversation t1, legacy markup, every field present.
CardA ==
    Card(CardSelectors[3], "data-conversation-id", "t1",
         (ParticipantSelectors[2] :> "Alice") @@ (PreviewSelectors[2] :> "hi")
            @@ (TimestampSelectors[2] :> "2h") @@ (ThreadTimestampSelector :> "2h"),
         "h1", FALSE)

\* Conversation t1 after a new message: another preview and outerHTML.
CardA2 ==
    Card(CardSelectors[3], "data-conversation-id", "t1",
         (ParticipantSelectors[2] :> "Alice") @@ (PreviewSelectors[2] :> "yo")
            @@ (TimestampSelectors[2] :> "now") @@ (ThreadTimestampSelector :> "now"),
         "h2", TRUE)

\* Conversation t2: the first participant and timestamp candidates match an
\* empty element, the second ones hold the text; no .msg-conversation-card__time-stamp.
CardB ==
    Card(CardSelectors[3], "data-conversation-id", "t2",
         (ParticipantSelectors[1] :> "") @@ (ParticipantSelectors[2] :> "Bob")
            @@ (PreviewSelectors[2] :> "ok")
            @@ (TimestampSelectors[1] :> "") @@ (TimestampSelectors[2] :> "1d"),
         "h3", FALSE)

\* A card of the modern markup with no id anywhere and a name only.
CardC ==
    Card(CardSelectors[1], "none", None,
         (ParticipantSelectors[1] :> "Carol"), "h4", FALSE)

\* A card none of whose fields resolves.
CardD ==
    Card(CardSelectors[3], "none", None, <<>>, "h5", FALSE)

\* Conversation t2 in the overlay markup, its id in the thread link.
CardE ==
    Card(CardSelectors[5], "href", "t2",
         (ParticipantSelectors[4] :> "Bob") @@ (PreviewSelectors[4] :> "ok"),
         "h6", FALSE)

\* A legacy card with no id and an empty preview.
CardF ==
    Card(CardSelectors[3], "none", None,
         (ParticipantSelectors[2] :> "Dan") @@ (PreviewSelectors[2] :> "")
            @@ (TimestampSelectors[3] :> "3d") @@ (ThreadTimestampSelector :> "3d"),
         "h7", FALSE)

Cards == {CardA, CardA2, CardB, CardC, CardD, CardE, CardF}

\* The sequences over S of length at most n.
SeqsUpTo(S, n) == UNION {[1..k -> S] : k \in 0..n}

\* The conversation lists a reload can bring up: nothing, a complete card, a
\* card with no field, or a card only the overlay selector matches.
ReloadLists == SeqsUpTo({CardA, CardD, CardE}, MaxReloaded)

\* page.query_selector_all(selector) over the conversation list d.
query_selector_all(d, selector) == SelectSeq(d, LAMBDA c : c.cls = selector)

\* card.eval_on_selector(selector, "el => el.innerText"); Missing stands for
\* the exception it raises.
eval_on_selector(card, selector) == card.text[selector]

\* card.get_attribute(name)
get_attribute(card, name) == IF card.idattr = name THEN card.cid ELSE None

(* ------------- get_current_conversations (src/app) -------------------- *)

\* str(uuid.uuid4()), the identifier given to a record with no platform id.
\* Every uuid4 is fresh; the model writes them all as one token.
Uuid == "uuid4"

\* The candidate loop of the participant name and of the preview: the
\* variable cur keeps the last text read; a non-empty text ends the loop, an
\* exception goes on to the next candidate.
RECURSIVE first_non_empty(_, _, _, _)
first_non_empty(conv, selectors, i, cur) ==
    IF i > Len(selectors) THEN cur
    ELSE LET v == eval_on_selector(conv, selectors[i])
         IN  IF v = Missing THEN first_non_empty(conv, selectors, i + 1, cur)
             ELSE IF Truthy(v) THEN v
             ELSE first_non_empty(conv, selectors, i + 1, v)

\* The candidate loop of the timestamp: the first candidate that does not
\* raise ends the loop, with "Recent" in place of an empty text.
RECURSIVE first_matching(_, _, _, _)
first_matching(conv, selectors, i, cur) ==
    IF i > Len(selectors) THEN cur
    ELSE LET v == eval_on_selector(conv, selectors[i])
         IN  IF v = Missing THEN first_matching(conv, selectors, i + 1, cur)
             ELSE Or(v, "Recent")

resolve_participant(conv) == first_non_empty(conv, ParticipantSelectors, 1, None)

resolve_preview(conv) == first_non_empty(conv, PreviewSelectors, 1, None)

resolve_timestamp(conv) == first_matching(conv, TimestampSelectors, 1, "Recent")

\* Method 1 (the three attributes, chained with or), then method 2 (the
\* thread link's href).
resolve_conv_id(conv) ==
    LET m1 == Or(get_attribute(conv, IdAttributes[1]),
                 Or(get_attribute(conv, IdAttributes[2]),
                    get_attribute(conv, IdAttributes[3])))
    IN  IF Truthy(m1) THEN m1
        ELSE IF conv.idattr = "href" THEN conv.cid
        ELSE None

\* One turn of the card loop: the records it appends (one or none).
process_conversation(conv) ==
    Bind(resolve_participant(conv), LAMBDA participant :
    Bind(resolve_preview(conv), LAMBDA preview :
        IF Truthy(participant) \/ Truthy(preview)
        THEN << [conversation_id |-> Or(resolve_conv_id(conv), Uuid),
                 participant_name |-> Or(participant, "Unknown Contact"),
                 message_preview |-> Or(preview, ""),
                 timestamp |-> resolve_timestamp(conv),
                 has_attachment |-> conv.att] >>
        ELSE <<>>))

RECURSIVE conversation_loop(_, _, _)

\* The card loop breaking one turn late (i > limit).
conversation_loop_late(conversations, limit, i) ==
    IF i >= Len(conversations) \/ i > limit THEN <<>>
    ELSE process_conversation(conversations[i + 1])
            \o conversation_loop(conversations, limit, i + 1)

\* for i, conv in enumerate(conversations): if i >= limit: break; ...
conversation_loop(conversations, limit, i) ==
    IF i >= Len(conversations) \/ i >= limit THEN <<>>
    ELSE process_conversation(conversations[i + 1])
            \o conversation_loop(conversations, limit, i + 1)

\* One pass over the card selectors: each is queried in turn, a query that
\* raises (selector in failing) is skipped, the first non-empty list ends it.
RECURSIVE selector_pass(_, _, _, _, _)
selector_pass(d, selectors, failing, i, cur) ==
    IF i > Len(selectors) THEN cur
    ELSE IF selectors[i] \in failing
         THEN selector_pass(d, selectors, failing, i + 1, cur)
    ELSE LET found == query_selector_all(d, selectors[i])
         IN  IF found # <<>> THEN found
             ELSE selector_pass(d, selectors, failing, i + 1, found)

\* Elements of the data API's payload ("elements" of
\* /voyager/api/messaging/conversations).  None: the key is absent;
\* Missing as the name: participants is an empty list, so [0] raises.
ApiItem1 ==
    [entityUrn |-> "t1", name |-> "Alice", previewText |-> "hi",
     lastActivityAt |-> "2h"]

ApiItem2 ==
    [entityUrn |-> None, name |-> None, previewText |-> None,
     lastActivityAt |-> None]

ApiItem3 ==
    [entityUrn |-> "t2", name |-> Missing, previewText |-> "ok",
     lastActivityAt |-> "1d"]

ApiItems == {ApiItem1, ApiItem2, ApiItem3}

\* What the scripted API call can answer: evaluate raises, no JSESSIONID
\* cookie, a null answer, or the elements.
ApiOutcomes ==
    {[kind |-> "raise", items |-> <<>>], [kind |-> "notoken", items |-> <<>>],
     [kind |-> "null", items |-> <<>>]}
        \cup {[kind |-> "data", items |-> s] : s \in SeqsUpTo(ApiItems, MaxApi)}

\* The LinkedInMessage built from one element of the payload.
api_message(conv) ==
    [conversation_id |-> IF conv.entityUrn = None THEN Uuid ELSE conv.entityUrn,
     participant_name |-> IF conv.name = None THEN "Unknown Contact" ELSE conv.name,
     message_preview |-> IF conv.previewText = None THEN "" ELSE conv.previewText,
     timestamp |-> IF conv.lastActivityAt = None THEN "Recent" ELSE conv.lastActivityAt,
     has_attachment |-> FALSE]

\* [LinkedInMessage(...) for conv in conversations_data[:limit]]
api_messages(data, limit) ==
    LET part == PySlice(data, limit)
    IN  [i \in 1..Len(part) |-> api_message(part[i])]

\* Whether building that list raises.
api_messages_raise(data, limit) ==
    \E i \in 1..Len(PySlice(data, limit)) : PySlice(data, limit)[i].name = Missing

\* The sets of card selectors whose query raises during one call.
QueryFailSets == {{}, {CardSelectors[3]}}

\* No conversation found, reported as a failure.
no_conversations_failure == Err("No conversations found")

\* if not conversations: logger.warning("No conversations found");
\* return response_model(result=[])
no_conversations_found == Ok(<<>>)

\* The reload made whatever the data API gave.
reload_regardless(first, apiHit) == first = <<>>

\* Whether the reload-and-retry is reached: the first pass found no card and
\* the data API's list was not returned.
reload_follows(first, apiHit) == first = <<>> /\ ~apiHit

\* get_current_conversations(ctx, limit=limit) on a page at url u showing the
\* conversation list d.  b holds the browser's answers: gotoFails (the goto
\* raises), failing (queries that raise), api (the scripted API's answer),
\* reloadFails (the reload raises), reloaded (the list after the reload).
\* It gives the envelope, the page after the call, the extraction strategies
\* attempted in order, and seen, the card list the loop ran over.
get_current_conversations(u, d, limit, b) ==
    Bind(selector_pass(d, CardSelectors, b.failing, 1, <<>>), LAMBDA first :
    Bind(IF b.api.kind = "data" THEN b.api.items ELSE <<>>, LAMBDA apiData :
    Bind(first = <<>> /\ apiData # <<>> /\ ~api_messages_raise(apiData, limit),
         LAMBDA apiHit :
    Bind(reload_follows(first, apiHit), LAMBDA reloadTried :
    Bind(IF reloadTried
         THEN selector_pass(b.reloaded, ReloadCardSelectors, b.failing, 1, first)
         ELSE first, LAMBDA conversations :
    Bind(<<"dom">> \o (IF first = <<>> THEN <<"api">> ELSE <<>>)
                   \o (IF reloadTried THEN <<"reload">> ELSE <<>>), LAMBDA attempts :
        IF u # "messaging" /\ b.gotoFails
        THEN [env |-> Err("Failed to get conversations"), url |-> u, dom |-> d,
              attempts |-> <<>>, seen |-> <<>>, source |-> "error",
              navigated |-> FALSE, passes |-> 0]
        ELSE IF apiHit
        THEN [env |-> Ok(api_messages(apiData, limit)), url |-> "messaging",
              dom |-> d, attempts |-> attempts, seen |-> <<>>, source |-> "api",
              navigated |-> u # "messaging", passes |-> 1]
        ELSE IF reloadTried /\ b.reloadFails
        THEN [env |-> Err("Failed to get conversations"), url |-> "messaging",
              dom |-> d, attempts |-> attempts, seen |-> <<>>, source |-> "error",
              navigated |-> u # "messaging", passes |-> 1]
        ELSE [env |-> IF conversations = <<>> THEN no_conversations_found
                      ELSE Ok(conversation_loop(conversations, limit, 0)),
              url |-> "messaging",
              dom |-> IF reloadTried THEN b.reloaded ELSE d,
              attempts |-> attempts, seen |-> conversations,
              source |-> IF reloadTried THEN "reload" ELSE "dom",
              navigated |-> u # "messaging" \/ reloadTried,
              passes |-> IF reloadTried THEN 2 ELSE 1]))))))

\* The browser answers that matter to a call of get_current_conversations on
\* (u, d) with this limit: an answer the call never reads keeps its default.
ConversationAnswers(u, d, limit) ==
    LET base == [gotoFails |-> FALSE, failing |-> {}, reloadFails |-> FALSE,
                 api |-> [kind |-> "null", items |-> <<>>], reloaded |-> <<>>]
        perFailing(f) ==
            IF selector_pass(d, CardSelectors, f, 1, <<>>) # <<>>
            THEN {[base EXCEPT !.failing = f]}
            ELSE UNION {
                    IF a.kind = "data" /\ a.items # <<>>
                          /\ ~api_messages_raise(a.items, limit)
                    THEN {[base EXCEPT !.failing = f, !.api = a]}
                    ELSE {[base EXCEPT !.failing = f, !.api = a, !.reloadFails = TRUE]}
                           \cup {[base EXCEPT !.failing = f, !.api = a, !.reloaded = r] :
                                    r \in ReloadLists}
                    : a \in ApiOutcomes }
    IN  (IF u # "messaging" THEN {[base EXCEPT !.gotoFails = TRUE]} ELSE {})
            \cup UNION {perFailing(f) : f \in QueryFailSets}

(* --------------------- the element cache (both builds) ---------------- *)

\* The cache is the directory /storage/cache (files: key -> pickled value,
\* its domain the files that exist) and the lru_cache memo of
\* query_cached_element (lru: key -> returned value).  A key f"{prefix}{id}"
\* is written <<prefix, id>>.
EmptyMap == [k \in {} |-> None]

ElementKey(thread_id) == <<"linkedin-thread-element-", thread_id>>

ThreadKey(thread_id) == <<"mail-thread-", thread_id>>

DirectUrlKey(thread_id) == <<"direct-url-", thread_id>>

MessageKey(id) == <<"mail-message-", id>>

\* has_cached_element(key)
has_cached_element(files, key) == key \in DOMAIN files

\* query_cached_element(key), under @lru_cache(maxsize=256): a key asked
\* before gets the memoised answer, whatever the directory holds now.  The
\* model's keys are far fewer than 256, so no entry is ever evicted.
query_cached_element(files, lru, key) ==
    IF key \in DOMAIN lru
    THEN [value |-> lru[key], lru |-> lru]
    ELSE LET v == IF key \in DOMAIN files THEN files[key] ELSE None
         IN  [value |-> v, lru |-> (key :> v) @@ lru]

\* cache_element(key, element): the files after the call.  An existing file
\* is left as it is (the call answers True without writing).
cache_element(files, key, element) ==
    IF key[1] = "" /\ key[2] = "" THEN files
    ELSE IF key \in DOMAIN files THEN files
    ELSE (key :> element) @@ files

(* ------------- get_current_threads (src/linkedln-use) ----------------- *)

\* The list the page shows: the conversation list is rendered on the
\* messaging view only.
Visible(W) == IF W.url = "messaging" THEN W.dom ELSE <<>>

\* One turn of the thread loop on card thread at index i: the three
\* eval_on_selector calls raise when their selector matches nothing, and the
\* turn's except clause then skips the card, before anything is cached.
thread_raises(thread) ==
    \/ eval_on_selector(thread, ParticipantSelectors[2]) = Missing
    \/ eval_on_selector(thread, PreviewSelectors[2]) = Missing
    \/ eval_on_selector(thread, ThreadTimestampSelector) = Missing

\* The SimpleEMail the turn appends.
thread_record(thread, i) ==
    LET participant == eval_on_selector(thread, ParticipantSelectors[2])
        snippet == eval_on_selector(thread, PreviewSelectors[2])
        timestamp == eval_on_selector(thread, ThreadTimestampSelector)
        thread_id == get_attribute(thread, "data-conversation-id")
    IN  [thread_id |-> Or(thread_id, ToString(i)),
         subject |-> <<"Conversation with ", participant>>,
         sender |-> Or(participant, "Unknown Contact"),
         date |-> Or(timestamp, "Unknown Date"),
         snippet |-> Or(snippet, ""),
         has_attachment |-> FALSE]

\* The files after the turn: the card's outerHTML is cached under its
\* data-conversation-id, when it has one.
thread_cache(files, thread) ==
    LET thread_id == get_attribute(thread, "data-conversation-id")
    IN  IF Truthy(thread_id)
        THEN cache_element(files, ElementKey(thread_id), thread.html)
        ELSE files

\* for i, thread in enumerate(threads): if i >= limit: break; ...
\* It gives the results and the files after the loop.
RECURSIVE thread_loop(_, _, _, _, _)
thread_loop(threads, limit, i, results, files) ==
    IF i >= Len(threads) \/ i >= limit
    THEN [results |-> results, files |-> files]
    ELSE IF thread_raises(threads[i + 1])
         THEN thread_loop(threads, limit, i + 1, results, files)
    ELSE thread_loop(threads, limit, i + 1,
                     Append(results, thread_record(threads[i + 1], i)),
                     thread_cache(files, threads[i + 1]))

\* The polling loop: threads is queried again, a second apart, while it is
\* empty and retries remain.  The list is being rendered again during the
\* first emptyPolls queries, which find no card; polls counts the queries
\* made.
RECURSIVE poll_threads(_, _, _, _)

\* The polling loop going on while retries >= 0: one query too many.
poll_threads_once_more(W, retries, polls, emptyPolls) ==
    IF retries >= 0
    THEN LET threads == IF polls < emptyPolls THEN <<>>
                        ELSE query_selector_all(Visible(W), CardSelectors[3])
         IN  IF threads = <<>>
             THEN poll_threads(W, retries - 1, polls + 1, emptyPolls)
             ELSE [threads |-> threads, polls |-> polls + 1]
    ELSE [threads |-> <<>>, polls |-> polls]

\* threads = []; retries = 5
\* while threads == [] and retries > 0: wait a second, query, retries -= 1
poll_threads(W, retries, polls, emptyPolls) ==
    IF retries > 0
    THEN LET threads == IF polls < emptyPolls THEN <<>>
                        ELSE query_selector_all(Visible(W), CardSelectors[3])
         IN  IF threads = <<>>
             THEN poll_threads(W, retries - 1, polls + 1, emptyPolls)
             ELSE [threads |-> threads, polls |-> polls + 1]
    ELSE [threads |-> <<>>, polls |-> polls]

(* ------------------- what a handler hands back ------------------------ *)

\* What a call leaves behind for the properties to read, beside its outcome:
\*   authOk     what check_authorization reported ("yes", "no"), "unchecked"
\*              when the call never asked
\*   attempts   the extraction strategies tried, in order
\*   seen       the card list the record loop ran over
\*   source     where the result came from
\*   polls      how often the conversation list was queried
\*   navigated  whether the page was navigated or reloaded
\*   opened     how ensure_thread_opened ended ("yes": it returned True,
\*              "no": it returned False, "raised"), "n/a" when not called
\*   clicked    the conversation whose card was clicked (None: no click)
\*   shown      the thread open in the page when its messages were read
\*   served     "cache" or "fresh" for a thread snapshot, else "n/a"
\*   fresh      the mails a scrape of the page gives at that moment
\*   sent       whether the send button was clicked
\*   nodes      the nodes of the thread the message scrape ran over
NoTrace ==
    [authOk |-> "unchecked", attempts |-> <<>>, seen |-> <<>>, source |-> "none",
     polls |-> 0, navigated |-> FALSE, opened |-> "n/a", clicked |-> None,
     shown |-> None, served |-> "n/a", fresh |-> <<>>, sent |-> FALSE,
     nodes |-> <<>>]

\* The place of an envelope when the call raised instead.
NoEnvelope == [result |-> None, error |-> None, success |-> FALSE]

\* The call returned envelope env, leaving world W.
Return(env, W, trace) ==
    [kind |-> "return", env |-> env, exc |-> None, W |-> W, trace |-> trace]

\* The call raised exception exc, leaving world W.
Raise(exc, W, trace) ==
    [kind |-> "raise", env |-> NoEnvelope, exc |-> exc, W |-> W, trace |-> trace]

(* ---------------- authorization (controllers.py) ---------------------- *)

\* The steps of a call that the browser can fail (a timeout, a navigation
\* error); a call's answers name the steps that fail in it.
\*   auth_goto  check_authorization's goto        auth_nav  its wait for .global-nav
\*   url_goto   ensure_url's goto                 goto      the handler's own goto
\*   search     search_email's wait               load      wait_for_load_state
\*   wait_list  the waits for the list container and items
\*   click      the click on a conversation card  wait_open the wait after it
\*   no_container  the list container is not found after the goto
\*   page       ctx.get_current_page() of get_login_status

\* check_authorization(ctx): it never raises; any failure answers False.
check_authorization(session, W, faults) ==
    Bind(W.url = "other" /\ "auth_goto" \in faults, LAMBDA gotoFailed :
        [ok |-> session /\ ~gotoFailed /\ "auth_nav" \notin faults,
         W |-> IF W.url = "other" /\ ~gotoFailed THEN [W EXCEPT !.url = "home"]
               ELSE W,
         navigated |-> W.url = "other" /\ ~gotoFailed])

\* ensure_url(ctx, 'https://www.linkedin.com/'): a goto when the page is
\* elsewhere; raises lets the goto's exception out.
ensure_url(W, faults) ==
    IF W.url = "other"
    THEN IF "url_goto" \in faults
         THEN [raises |-> TRUE, W |-> W, navigated |-> FALSE]
         ELSE [raises |-> FALSE, W |-> [W EXCEPT !.url = "home"], navigated |-> TRUE]
    ELSE [raises |-> FALSE, W |-> W, navigated |-> FALSE]

\* ensure_authorized(ctx): exc is None when it returns True, else the
\* exception that leaves it.
ensure_authorized(session, W, faults) ==
    Bind(check_authorization(session, W, faults), LAMBDA chk :
    Bind(ensure_url(chk.W, faults), LAMBDA eu :
        [authOk |-> IF chk.ok THEN "yes" ELSE "no",
         exc |-> IF eu.raises THEN "PlaywrightError"
                 ELSE IF chk.ok THEN None ELSE "UnauthorizedAccess",
         W |-> eu.W,
         navigated |-> chk.navigated \/ eu.navigated]))

(* ------------- list_threads, get_current_threads (lu) ----------------- *)

\* except Exception as e: logger.warning("No messages found: ... (this is
\* normal if the inbox is empty)"); return response_model(result=[])
no_messages_found == Ok(<<>>)

\* get_current_threads(ctx, silent=False, limit=limit).
get_current_threads(session, W, limit, faults, emptyPolls) ==
    Bind(ensure_authorized(session, W, faults), LAMBDA auth :
    Bind([NoTrace EXCEPT !.authOk = auth.authOk, !.navigated = auth.navigated],
         LAMBDA tr0 :
        IF auth.exc # None THEN Raise(auth.exc, auth.W, tr0)
        ELSE IF "load" \in faults THEN Raise("PlaywrightError", auth.W, tr0)
        ELSE IF "wait_list" \in faults
                \/ query_selector_all(Visible(auth.W), CardSelectors[3]) = <<>>
        THEN Return(no_messages_found, auth.W, [tr0 EXCEPT !.source = "timeout"])
        ELSE
    Bind(poll_threads(auth.W, Retries, 0, emptyPolls), LAMBDA polled :
    Bind(thread_loop(polled.threads, limit, 0, <<>>, auth.W.files), LAMBDA loop :
        Return(Ok(loop.results), [auth.W EXCEPT !.files = loop.files],
               [tr0 EXCEPT !.source = "dom", !.attempts = <<"dom">>,
                           !.seen = polled.threads, !.polls = polled.polls])))))

\* list_threads(ctx, ..., limit=limit); query says whether craft_query gives a
\* non-empty query (a filter argument was passed).  A search that succeeds
\* leaves the list as the page variable dom gives it.
list_threads(session, W, query, limit, faults, emptyPolls) ==
    Bind(ensure_authorized(session, W, faults), LAMBDA auth :
    Bind([NoTrace EXCEPT !.authOk = auth.authOk, !.navigated = auth.navigated],
         LAMBDA tr0 :
        IF auth.exc # None THEN Raise(auth.exc, auth.W, tr0)
        ELSE IF "goto" \in faults THEN Raise("PlaywrightError", auth.W, tr0)
        ELSE IF query /\ "search" \in faults
        THEN Raise("PlaywrightError", [auth.W EXCEPT !.url = "messaging"],
                   [tr0 EXCEPT !.navigated = TRUE])
        ELSE
    Bind(get_current_threads(session, [auth.W EXCEPT !.url = "messaging"], limit,
                             faults, emptyPolls), LAMBDA inner :
        [inner EXCEPT !.trace.navigated = TRUE])))

(* ---------------- ensure_thread_opened, enter_thread (lu) ------------- *)

\* The card looked up by its id or, failing that, by its position in the list.
conversation_found_by_position(W, thread_id) ==
    \E i \in 1..Len(Visible(W)) :
        /\ Visible(W)[i].cls = CardSelectors[3]
        /\ \/ get_attribute(Visible(W)[i], "data-conversation-id") = thread_id
           \/ ToString(i - 1) = thread_id

\* page.query_selector('.msg-conversation-listitem[data-conversation-id="{thread_id}"]')
\* finds a card.
conversation_found(W, thread_id) ==
    \E i \in 1..Len(Visible(W)) :
        /\ Visible(W)[i].cls = CardSelectors[3]
        /\ get_attribute(Visible(W)[i], "data-conversation-id") = thread_id

\* The click on the card of thread_id and the wait that follows (no
\* timeout argument, no try): exc is the exception that leaves them.  Once the
\* click is done the page shows that thread, whatever the wait does.
click_and_wait(W, thread_id, faults) ==
    IF "click" \in faults
    THEN [exc |-> "PlaywrightError", W |-> W, clicked |-> None]
    ELSE [exc |-> IF "wait_open" \in faults THEN "PlaywrightError" ELSE None,
          W |-> [W EXCEPT !.open = thread_id], clicked |-> thread_id]

\* ensure_thread_opened(ctx, thread_id): ret is its return value when exc is
\* None.
ensure_thread_opened(W, thread_id, faults) ==
    IF conversation_found(W, thread_id)
    THEN Bind(click_and_wait(W, thread_id, faults), LAMBDA direct :
            [ret |-> direct.exc = None, exc |-> direct.exc, W |-> direct.W,
             clicked |-> direct.clicked, navigated |-> FALSE])
    ELSE
    Bind(query_cached_element(W.files, W.lru, ElementKey(thread_id)), LAMBDA q :
    Bind([W EXCEPT !.lru = q.lru], LAMBDA W1 :
    Bind(W1.url # "messaging", LAMBDA needGoto :
    Bind([W1 EXCEPT !.url = "messaging"], LAMBDA W2 :
        IF ~Truthy(q.value)
        THEN [ret |-> FALSE, exc |-> None, W |-> W1, clicked |-> None,
              navigated |-> FALSE]
        ELSE IF needGoto /\ "goto" \in faults
        THEN [ret |-> FALSE, exc |-> "PlaywrightError", W |-> W1,
              clicked |-> None, navigated |-> FALSE]
        ELSE IF (needGoto /\ "no_container" \in faults)
                \/ ~conversation_found(W2, thread_id)
        THEN [ret |-> FALSE, exc |-> None, W |-> W2, clicked |-> None,
              navigated |-> needGoto]
        ELSE Bind(click_and_wait(W2, thread_id, faults), LAMBDA late :
                [ret |-> late.exc = None, exc |-> late.exc, W |-> late.W,
                 clicked |-> late.clicked, navigated |-> needGoto])))))

\* How a call of ensure_thread_opened ended, for the trace: it raised, it
\* returned True or it returned False.
opened_as(eto) ==
    IF eto.exc # None THEN "raised" ELSE IF eto.ret THEN "yes" ELSE "no"

\* The div[data-message-id] elements of the page: the ids of the messages of
\* the open thread, "<thread>-<k>" for its k-th message.
message_elements(W, inbox) ==
    IF W.open \notin DOMAIN inbox THEN <<>>
    ELSE [k \in 1..inbox[W.open] |-> W.open \o "-" \o ToString(k)]

\* What the HTTP fetch of one message can do: raise, answer no message (a
\* status other than 200, no raw text), or give the message.
FetchOutcomes == {"raise", "none", "ok"}

\* The EMail parsed from the raw text of message id.
message_detail(id) == "EMail " \o id

\* extract_mail_message_detail(ctx, id) with the fetch answering outcome:
\* value is the Optional[EMail] returned when raises is FALSE.
extract_mail_message_detail(files, lru, id, outcome) ==
    IF has_cached_element(files, MessageKey(id))
    THEN LET q == query_cached_element(files, lru, MessageKey(id))
         IN  [raises |-> FALSE, value |-> q.value, files |-> files, lru |-> q.lru]
    ELSE IF outcome = "raise"
         THEN [raises |-> TRUE, value |-> None, files |-> files, lru |-> lru]
    ELSE IF outcome = "none"
         THEN [raises |-> FALSE, value |-> None, files |-> files, lru |-> lru]
    ELSE [raises |-> FALSE, value |-> message_detail(id),
          files |-> cache_element(files, MessageKey(id), message_detail(id)),
          lru |-> lru]

\* for element in mail_elements: ... mail_list.append(email)
RECURSIVE mail_loop(_, _, _, _, _, _)
mail_loop(elements, fetch, i, mails, files, lru) ==
    IF i > Len(elements)
    THEN [raises |-> FALSE, mails |-> mails, files |-> files, lru |-> lru]
    ELSE Bind(extract_mail_message_detail(files, lru, elements[i], fetch[i]),
              LAMBDA e :
                IF e.raises
                THEN [raises |-> TRUE, mails |-> mails, files |-> e.files,
                      lru |-> e.lru]
                ELSE mail_loop(elements, fetch, i + 1,
                               IF e.value = None THEN mails
                               ELSE Append(mails, e.value),
                               e.files, e.lru))

\* enter_thread(ctx, thread_id); b.faults are the steps that fail, b.fetch[i]
\* what the fetch of the i-th message does.
enter_thread(session, W, inbox, thread_id, b) ==
    Bind(ensure_authorized(session, W, b.faults), LAMBDA auth :
    Bind([NoTrace EXCEPT !.authOk = auth.authOk, !.navigated = auth.navigated],
         LAMBDA tr0 :
        IF auth.exc # None THEN Raise(auth.exc, auth.W, tr0)
        ELSE IF thread_id = ""
        THEN Return(Err("Thread ID cannot be empty or n/a."), auth.W, tr0)
        ELSE
    Bind(ensure_thread_opened(auth.W, thread_id, b.faults), LAMBDA eto :
    Bind([tr0 EXCEPT !.opened = opened_as(eto),
                     !.clicked = eto.clicked,
                     !.navigated = auth.navigated \/ eto.navigated,
                     !.shown = eto.W.open], LAMBDA tr1 :
        IF eto.exc # None THEN Raise(eto.exc, eto.W, tr1)
        ELSE
    Bind(mail_loop(message_elements(eto.W, inbox), b.fetch, 1, <<>>,
                   eto.W.files, eto.W.lru), LAMBDA scrape :
    Bind([tr1 EXCEPT !.fresh = scrape.mails], LAMBDA tr2 :
        IF has_cached_element(eto.W.files, ThreadKey(thread_id))
        THEN Bind(query_cached_element(eto.W.files, eto.W.lru, ThreadKey(thread_id)),
                  LAMBDA q :
                    Return(Ok(q.value), [eto.W EXCEPT !.lru = q.lru],
                           [tr2 EXCEPT !.served = "cache"]))
        ELSE IF scrape.raises
        THEN Raise("HttpError",
                   [eto.W EXCEPT !.files = scrape.files, !.lru = scrape.lru], tr1)
        ELSE
    Bind([thread_id |-> thread_id, mails |-> scrape.mails], LAMBDA mail_thread :
        Return(Ok(mail_thread),
               [eto.W EXCEPT
                   !.files = cache_element(
                                 cache_element(scrape.files, DirectUrlKey(thread_id),
                                               eto.W.url),
                                 ThreadKey(thread_id), mail_thread),
                   !.lru = scrape.lru],
               [tr2 EXCEPT !.served = "fresh"]))))))))

(* ------------- forward, reply, compose, label, sign_out (lu) ---------- *)

\* What the compose UI does in one call: the Forward/Reply/Compose button is
\* not found, no compose region opens, the recipient field is not found, some
\* step raises before the send button is clicked, or the message is sent.
UiOutcomes == {"no_button", "no_regions", "no_recipient", "raise", "sent"}

\* forward_thread and reply_to_thread dropping what ensure_thread_opened
\* returns, as enter_thread does.
open_and_send_unchecked(session, W, thread_id, b, okText) ==
    Bind(ensure_authorized(session, W, b.faults), LAMBDA auth :
    Bind([NoTrace EXCEPT !.authOk = auth.authOk, !.navigated = auth.navigated],
         LAMBDA tr0 :
        IF auth.exc # None THEN Raise(auth.exc, auth.W, tr0)
        ELSE IF thread_id = ""
        THEN Return(Err("Thread ID cannot be empty or n/a."), auth.W, tr0)
        ELSE
    Bind(ensure_thread_opened(auth.W, thread_id, b.faults), LAMBDA eto :
    Bind([tr0 EXCEPT !.opened = opened_as(eto),
                     !.clicked = eto.clicked,
                     !.navigated = auth.navigated \/ eto.navigated,
                     !.shown = eto.W.open], LAMBDA tr1 :
        IF eto.exc # None THEN Raise(eto.exc, eto.W, tr1)
        ELSE IF b.ui = "no_button"
        THEN Return(Err("Failed to find the forward button in the thread."),
                    eto.W, tr1)
        ELSE IF b.ui = "no_regions"
        THEN Return(Err("No compose regions found."), eto.W, tr1)
        ELSE IF b.ui = "sent"
        THEN Return(Ok(okText), eto.W, [tr1 EXCEPT !.sent = TRUE])
        ELSE Raise("PlaywrightError", eto.W, tr1)))))

\* The part forward_thread and reply_to_thread share: ensure_authorized, the
\* thread_id check, ensure_thread_opened, then the compose UI; okText is the
\* result of a sent message.
open_and_send(session, W, thread_id, b, okText) ==
    Bind(ensure_authorized(session, W, b.faults), LAMBDA auth :
    Bind([NoTrace EXCEPT !.authOk = auth.authOk, !.navigated = auth.navigated],
         LAMBDA tr0 :
        IF auth.exc # None THEN Raise(auth.exc, auth.W, tr0)
        ELSE IF thread_id = ""
        THEN Return(Err("Thread ID cannot be empty or n/a."), auth.W, tr0)
        ELSE
    Bind(ensure_thread_opened(auth.W, thread_id, b.faults), LAMBDA eto :
    Bind([tr0 EXCEPT !.opened = opened_as(eto),
                     !.clicked = eto.clicked,
                     !.navigated = auth.navigated \/ eto.navigated,
                     !.shown = eto.W.open], LAMBDA tr1 :
        IF eto.exc # None THEN Raise(eto.exc, eto.W, tr1)
        ELSE IF ~eto.ret
        THEN Return(Err("Thread not found or not opened."), eto.W, tr1)
        ELSE IF b.ui = "no_button"
        THEN Return(Err("Failed to find the forward button in the thread."),
                    eto.W, tr1)
        ELSE IF b.ui = "no_regions"
        THEN Return(Err("No compose regions found."), eto.W, tr1)
        ELSE IF b.ui = "sent"
        THEN Return(Ok(okText), eto.W, [tr1 EXCEPT !.sent = TRUE])
        ELSE Raise("PlaywrightError", eto.W, tr1)))))

\* forward_thread(ctx, thread_id, recipient)
forward_thread(session, W, thread_id, b) ==
    open_and_send(session, W, thread_id, b, "Email forwarded successfully.")

\* reply_to_thread(ctx, thread_id, message)
reply_to_thread(session, W, thread_id, b) ==
    open_and_send(session, W, thread_id, b, "Replied.")

\* compose_email(ctx, recipient, subject, body): a Compose button that is not
\* found is None, and its click raises AttributeError.
compose_email(session, W, b) ==
    Bind(ensure_authorized(session, W, b.faults), LAMBDA auth :
    Bind([NoTrace EXCEPT !.authOk = auth.authOk, !.navigated = auth.navigated],
         LAMBDA tr0 :
        IF auth.exc # None THEN Raise(auth.exc, auth.W, tr0)
        ELSE IF b.ui = "no_button" THEN Raise("AttributeError", auth.W, tr0)
        ELSE IF b.ui = "no_regions"
        THEN Return(Err("No compose regions found."), auth.W, tr0)
        ELSE IF b.ui = "no_recipient"
        THEN Return(Err("Failed to find the recipient input field. User should fill this value and send it manually"),
                    auth.W, tr0)
        ELSE IF b.ui = "sent"
        THEN Return(ResponseMessage("Email sent", None, TRUE), auth.W,
                    [tr0 EXCEPT !.sent = TRUE])
        ELSE Raise("PlaywrightError", auth.W, tr0)))

\* sign_out(ctx), the same text in both builds: when authorized it goes to
\* the home page, unlinks every file of the cache directory and clears the
\* memo.
sign_out(session, W, faults) ==
    Bind(check_authorization(session, W, faults), LAMBDA chk :
    Bind([NoTrace EXCEPT !.authOk = IF chk.ok THEN "yes" ELSE "no",
                         !.navigated = chk.navigated], LAMBDA tr0 :
        IF ~chk.ok THEN Return(Ok(TRUE), chk.W, tr0)
        ELSE IF "goto" \in faults THEN Raise("PlaywrightError", chk.W, tr0)
        ELSE Return(Ok(TRUE),
                    [chk.W EXCEPT !.url = "home", !.files = EmptyMap,
                                  !.lru = EmptyMap],
                    [tr0 EXCEPT !.navigated = TRUE])))

\* What move_thread_to does for a thread: the button is clicked (True), is
\* not found (False), or the evaluate raises.
MoveOutcomes == {"moved", "absent", "raise"}

\* The loop of label_threads over the ids in the order the set gives them:
\* moved, error_ids and not_found_ids, the world after, and the exception of
\* ensure_thread_opened when one leaves the loop.
RECURSIVE label_loop(_, _, _, _, _)
label_loop(W, order, i, b, acc) ==
    IF i > Len(order) THEN [acc EXCEPT !.W = W]
    ELSE Bind(ensure_thread_opened(W, order[i], b.faults), LAMBDA eto :
            IF eto.exc # None THEN [acc EXCEPT !.W = eto.W, !.exc = eto.exc]
            ELSE IF ~eto.ret
            THEN label_loop(eto.W, order, i + 1, b,
                            [acc EXCEPT !.not_found_ids = Append(@, order[i])])
            ELSE IF b.move = "moved"
            THEN label_loop(eto.W, order, i + 1, b,
                            [acc EXCEPT !.moved = Append(@, order[i]),
                                        !.clicked = order[i]])
            ELSE label_loop(eto.W, order, i + 1, b,
                            [acc EXCEPT !.error_ids = Append(@, order[i]),
                                        !.clicked = order[i]]))

\* label_threads(ctx, thread_ids, label); order lists the set of stripped,
\* non-empty ids in the order the loop meets them.  After the loop the
\* handler awaits page.url, a str, and that raises TypeError.
label_threads(W, order, b) ==
    Bind(label_loop(W, order, 1, b,
                    [moved |-> <<>>, error_ids |-> <<>>, not_found_ids |-> <<>>,
                     W |-> W, exc |-> None, clicked |-> None]), LAMBDA loop :
    Bind([NoTrace EXCEPT !.clicked = loop.clicked, !.shown = loop.W.open,
                         !.seen = loop.moved \o loop.error_ids \o loop.not_found_ids],
         LAMBDA tr :
        IF loop.exc # None THEN Raise(loop.exc, loop.W, tr)
        ELSE Raise("TypeError", loop.W, tr)))

(* ----------------- check_login_status (both builds) ------------------- *)

\* What the profile lookup of get_login_status finds once authorized: the
\* name and link, nothing, or a wait for .global-nav that times out.
ProfileOutcomes == {"full", "anonymous", "timeout"}

\* get_login_status with no else branch: a failed check leaves error None.
get_login_status_silent(session, W, b) ==
    Bind(check_authorization(session, W, b.faults), LAMBDA chk :
    Bind(chk.ok /\ b.profile = "full", LAMBDA found :
        [status |->
            [is_logged_in |-> chk.ok,
             profile_name |-> IF found THEN "Me" ELSE None,
             profile_url |-> IF found THEN "https://www.linkedin.com/in/me" ELSE None,
             error |-> IF chk.ok /\ b.profile = "timeout"
                       THEN "Error getting profile details"
                       ELSE None],
         W |-> chk.W, navigated |-> chk.navigated]))

\* get_login_status(ctx): the status dict.
get_login_status(session, W, b) ==
    Bind(check_authorization(session, W, b.faults), LAMBDA chk :
    Bind(chk.ok /\ b.profile = "full", LAMBDA found :
        [status |->
            [is_logged_in |-> chk.ok,
             profile_name |-> IF found THEN "Me" ELSE None,
             profile_url |-> IF found THEN "https://www.linkedin.com/in/me" ELSE None,
             error |-> IF ~chk.ok THEN "Not logged in to LinkedIn"
                       ELSE IF b.profile = "timeout"
                       THEN "Error getting profile details"
                       ELSE None],
         W |-> chk.W, navigated |-> chk.navigated]))

\* check_login_status(ctx): ctx.get_current_page() is outside the try of
\* get_login_status, so its failure (step "page") is the one exception that
\* reaches the except clause here.
check_login_status(session, W, b) ==
    IF "page" \in b.faults
    THEN Return(Err("page unavailable"), W, NoTrace)
    ELSE Bind(get_login_status(session, W, b), LAMBDA st :
            Return(Ok(st.status), st.W,
                   [NoTrace EXCEPT
                       !.authOk = IF st.status.is_logged_in THEN "yes" ELSE "no",
                       !.navigated = st.navigated]))

(* ------------------ execute_toolcall (src/linkedln-use) --------------- *)

(* ------ get_context_aware_available_toolcalls (both builds) ----------- *)

\* The names of the list toolcalls, in the order of the source.
lu_toolcalls ==
    << "list_threads", "enter_thread", "forward_thread", "reply_to_thread",
       "compose_email", "label_threads", "sign_out", "check_login_status" >>

app_toolcalls ==
    << "list_conversations", "extract_linkedin_info", "sign_out",
       "check_login_status" >>

\* The two filters with no test of is_authorized: sign_out is always left
\* out.
advertised_unconditionally(toolcalls, is_authorized) ==
    SelectSeq(toolcalls, LAMBDA name : name # "sign_out")

\* if is_authorized: every tool but sign_out; else: sign_out and
\* check_login_status.
advertised(toolcalls, is_authorized) ==
    IF is_authorized
    THEN SelectSeq(toolcalls, LAMBDA name : name # "sign_out")
    ELSE SelectSeq(toolcalls, LAMBDA name : name \in {"sign_out", "check_login_status"})

\* get_context_aware_available_toolcalls(ctx): the list it returns, held in
\* the result of the outcome.
get_context_aware_available_toolcalls(bld, session, W, faults) ==
    Bind(check_authorization(session, W, faults), LAMBDA chk :
        Return(Ok(advertised(IF bld = "app" THEN app_toolcalls ELSE lu_toolcalls,
                             chk.ok)),
               chk.W,
               [NoTrace EXCEPT !.authOk = IF chk.ok THEN "yes" ELSE "no",
                               !.navigated = chk.navigated]))

\* The tools execute_toolcall of the lu build dispatches.
LuTools ==
    {"check_login_status", "list_threads", "enter_thread", "sign_out",
     "forward_thread", "reply_to_thread", "compose_email", "label_threads"}

\* The last return of execute_toolcall: no tool of that name.
unknown_tool_call(W, tool_name) == Return(unknown_tool(tool_name), W, NoTrace)

\* The except clause around the four action tools: UnauthorizedAccess is
\* raised again, any other exception becomes an error envelope.
action_failed(out, tool_name) ==
    Bind(out, LAMBDA o :
        IF o.kind = "raise" /\ o.exc # "UnauthorizedAccess"
        THEN Return(Err("Action " \o tool_name
                            \o " failed, the user should do it manually."),
                    o.W, o.trace)
        ELSE o)

\* execute_toolcall(ctx, tool_name, args) of the lu build.
lu_execute_toolcall(session, W, inbox, tool_name, args, b) ==
    IF tool_name = "check_login_status" THEN check_login_status(session, W, b)
    ELSE IF tool_name = "list_threads"
    THEN list_threads(session, W, args.query, args.limit, b.faults,
                      b.emptyPolls)
    ELSE IF tool_name = "enter_thread"
    THEN enter_thread(session, W, inbox, args.thread_id, b)
    ELSE IF tool_name = "sign_out" THEN sign_out(session, W, b.faults)
    ELSE IF tool_name = "forward_thread"
    THEN action_failed(forward_thread(session, W, args.thread_id, b), tool_name)
    ELSE IF tool_name = "reply_to_thread"
    THEN action_failed(reply_to_thread(session, W, args.thread_id, b), tool_name)
    ELSE IF tool_name = "compose_email"
    THEN action_failed(compose_email(session, W, b), tool_name)
    ELSE IF tool_name = "label_threads"
    THEN action_failed(label_threads(W, args.order, b), tool_name)
    ELSE unknown_tool_call(W, tool_name)

(* ---------------------- execute_toolcall (src/app) -------------------- *)

\* The tools execute_toolcall of the app build dispatches.
AppTools ==
    {"check_login_status", "list_conversations", "sign_out", "extract_linkedin_info"}

\* get_current_conversations as a handler: its outcome in the common shape.
list_conversations(W, limit, conv) ==
    Bind(get_current_conversations(W.url, W.dom, limit, conv), LAMBDA r :
        Return(r.env, [W EXCEPT !.url = r.url, !.dom = r.dom],
               [NoTrace EXCEPT !.attempts = r.attempts, !.seen = r.seen,
                               !.source = r.source, !.navigated = r.navigated,
                               !.polls = r.passes]))

\* extract_linkedin_info(ctx, include_words): the login status, then the
\* conversations with the default limit.
extract_linkedin_info(session, W, b) ==
    Bind(check_login_status(session, W, b), LAMBDA login_status :
        IF ~login_status.env.success
        THEN Return(Err("Not logged in to LinkedIn"), login_status.W,
                    login_status.trace)
        ELSE IF ~login_status.env.result.is_logged_in
        THEN Return(Err("Not logged in to LinkedIn"), login_status.W,
                    login_status.trace)
        ELSE
    Bind(list_conversations(login_status.W, DefaultLimit, b.conv),
         LAMBDA conversations :
    Bind([conversations.trace EXCEPT
             !.authOk = login_status.trace.authOk,
             !.navigated = @ \/ login_status.trace.navigated], LAMBDA tr :
        IF ~conversations.env.success
        THEN Return(Err("Failed to get conversations"), conversations.W, tr)
        ELSE Return(Ok([profile |-> login_status.env.result,
                        conversations |-> conversations.env.result]),
                    conversations.W, tr))))

\* The dispatch with the sign_out branch left out.
app_execute_toolcall_without_sign_out(session, W, tool_name, args, b) ==
    IF tool_name = "check_login_status" THEN check_login_status(session, W, b)
    ELSE IF tool_name = "list_conversations"
    THEN list_conversations(W, args.limit, b.conv)
    ELSE IF tool_name = "extract_linkedin_info"
    THEN extract_linkedin_info(session, W, b)
    ELSE unknown_tool_call(W, tool_name)

\* execute_toolcall(ctx, tool_name, args) of the app build.
app_execute_toolcall(session, W, tool_name, args, b) ==
    IF tool_name = "check_login_status" THEN check_login_status(session, W, b)
    ELSE IF tool_name = "list_conversations"
    THEN list_conversations(W, args.limit, b.conv)
    ELSE IF tool_name = "sign_out" THEN sign_out(session, W, b.faults)
    ELSE IF tool_name = "extract_linkedin_info"
    THEN extract_linkedin_info(session, W, b)
    ELSE unknown_tool_call(W, tool_name)

(* --------------------------- the state -------------------------------- *)

VARIABLES
    build,      \* "app" or "lu": the build this process runs
    session,    \* whether the browser holds a logged-in LinkedIn session
    url,        \* where the page is: "other", "home" (linkedin.com), "messaging"
    dom,        \* the conversation list the messaging view renders
    open,       \* the thread the messaging view shows (None: none)
    inbox,      \* thread id -> the number of messages the thread holds
    files,      \* the cache directory: key -> stored value
    lru,        \* the memo of query_cached_element: key -> returned value
    calls,      \* how many tool calls the run has made
    issued,     \* the synthetic thread ids enumerations have handed out
    last,       \* the last tool call and its outcome
    tasks       \* the coroutines followed step by step, each with its place

vars ==
    <<build, session, url, dom, open, inbox, files, lru, calls, issued, last, tasks>>

\* The part of the state a handler reads and writes.
World == [url |-> url, dom |-> dom, open |-> open, files |-> files, lru |-> lru]

Builds == {"app", "lu"}

Urls == {"other", "home", "messaging"}

\* The conversation ids of the platform.
ThreadIds == {"t1", "t2"}

\* The thread_id arguments callers pass: none, a platform id, or an id an
\* earlier enumeration gave them.
ThreadArgs == {""} \cup ThreadIds \cup issued

\* thread_id=thread_id or str(i): the ids of the records of a list_threads
\* batch that are no platform id.
synthetic_ids(tool, out) ==
    IF tool = "list_threads" /\ out.kind = "return" /\ out.env.success
    THEN {out.env.result[k].thread_id : k \in 1..Len(out.env.result)} \ ThreadIds
    ELSE {}

(* ------- ensure_thread_opened, read_direct_messages (src/app) --------- *)

\* What can follow a thread id in the href of a thread link.
HrefRests == {""} \cup ThreadIds

\* The card carries thread_id in one of the three id attributes.
id_match(card, thread_id) ==
    \E k \in 1..Len(IdAttributes) : get_attribute(card, IdAttributes[k]) = thread_id

\* a[href*="/messaging/thread/{thread_id}"]: the href of the card's thread
\* link holds the text, so the link's id begins with thread_id.
href_match(card, thread_id) ==
    /\ card.idattr = "href"
    /\ \E rest \in HrefRests : thread_id \o rest = card.cid

\* The four selectors of the second lookup, tried in turn: the first element
\* one of them finds, <<>> when none does.
find_conversation(d, thread_id) ==
    Bind(SelectSeq(d, LAMBDA c : id_match(c, thread_id)), LAMBDA byId :
        IF byId # <<>> THEN <<byId[1]>>
        ELSE Bind(SelectSeq(d, LAMBDA c : href_match(c, thread_id)), LAMBDA byHref :
                IF byHref # <<>> THEN <<byHref[1]>> ELSE <<>>))

\* conversation.click() and the wait for the message container, inside a
\* try: ret is what ensure_thread_opened returns.
app_click_and_wait(W, conversation, faults) ==
    IF "click" \in faults
    THEN [ret |-> FALSE, W |-> W, clicked |-> None]
    ELSE [ret |-> "wait_open" \notin faults,
          W |-> [W EXCEPT !.open = conversation.cid],
          clicked |-> conversation.cid]

\* ensure_thread_opened(ctx, thread_id) of src/app: every exception is
\* caught and gives False.  Typing thread_id in the search box leaves the
\* cards that carry it as they are, so the lookup after it finds what the
\* lookup before it found.
app_ensure_thread_opened(W, thread_id, faults) ==
    Bind(SelectSeq(Visible(W), LAMBDA c : id_match(c, thread_id)), LAMBDA current :
        IF current # <<>>
        THEN Bind(app_click_and_wait(W, current[1], faults), LAMBDA direct :
                [ret |-> direct.ret, W |-> direct.W, clicked |-> direct.clicked,
                 navigated |-> FALSE])
        ELSE IF W.url # "messaging" /\ "goto" \in faults
        THEN [ret |-> FALSE, W |-> W, clicked |-> None, navigated |-> FALSE]
        ELSE
    Bind([W EXCEPT !.url = "messaging"], LAMBDA W1 :
    Bind(find_conversation(Visible(W1), thread_id), LAMBDA conversation :
        IF conversation = <<>>
        THEN [ret |-> FALSE, W |-> W1, clicked |-> None,
              navigated |-> W.url # "messaging"]
        ELSE Bind(app_click_and_wait(W1, conversation[1], faults), LAMBDA late :
                [ret |-> late.ret, W |-> late.W, clicked |-> late.clicked,
                 navigated |-> W.url # "messaging"]))))

\* The nodes of an open thread, in document order: a date divider, or a
\* message with its body and, where the node has them, a sender name and a
\* time fragment (Missing: the node has no such element).
Divider(date) ==
    [node |-> "divider", date |-> date, body |-> Missing, sender |-> Missing,
     time |-> Missing]

Message(body, sender, time) ==
    [node |-> "message", date |-> Missing, body |-> body, sender |-> sender,
     time |-> time]

\* The threads the page can show: one message under a divider; a message
\* with no time fragment followed by one with a time; a message with no
\* divider before it; a message and no time fragment at all; a message
\* whose body is empty; no message.
ThreadDoms ==
    { << Divider("Today"), Message("hi", "Alice", "3:45 PM") >>,
      << Divider("Today"), Message("", "Alice", "3:45 PM") >>,
      << Divider("Today"), Message("a", "Alice", Missing),
         Message("b", Missing, "3:45 PM") >>,
      << Message("hi", "Alice", "3:45 PM") >>,
      << Divider("Today"), Message("hi", "Alice", Missing) >>,
      << >> }

\* An element of the events the messages API answers: attributedBody is
\* the text of eventContent.attributedBody and text is eventContent.text,
\* None where the event has no such member.
Event(attributedBody, text) ==
    [sender |-> "Alice ", attributedBody |-> attributedBody, text |-> text,
     createdAt |-> "1700000000"]

\* The event lists of the API: a message; a message and one whose
\* attributedBody holds an empty text; an event with no content.
ApiEvents ==
    { << Event("hi", None) >>,
      << Event("hi", None), Event("", None) >>,
      << Event(None, None) >> }

\* data.elements.filter(msg => msg.eventContent && (attributedBody || text))
\*     .map(msg => ({sender, text: attributedBody?.text || text || '', timestamp}))
\* attributedBody is an object: it passes the filter whatever its text.
get_messages(elements) ==
    Bind(SelectSeq(elements,
                   LAMBDA msg : msg.attributedBody # None \/ Truthy(msg.text)),
         LAMBDA kept :
            [i \in 1..Len(kept) |->
                [sender |-> kept[i].sender,
                 text |-> Or(kept[i].attributedBody, Or(kept[i].text, "")),
                 timestamp |-> kept[i].createdAt]])

\* What page.evaluate answers for the messages API: null, or the messages
\* made of the events, each with the server's createdAt.
ApiMessages == {<<>>} \cup {get_messages(elements) : elements \in ApiEvents}

\* page.query_selector_all of one data-test-id inside the message container:
\* the texts of the elements found, in document order.
message_texts(thread, field) ==
    Bind(SelectSeq(thread, LAMBDA n : n.node = "message" /\ n[field] # Missing),
         LAMBDA found : [i \in 1..Len(found) |-> found[i][field]])

\* The UI scraping fallback: the i-th body is paired with the i-th sender
\* name and the i-th time fragment of the container, 'Unknown' where the
\* list is too short.
scrape_messages(thread) ==
    Bind(message_texts(thread, "body"), LAMBDA message_bodies :
    Bind(message_texts(thread, "sender"), LAMBDA sender_elements :
    Bind(message_texts(thread, "time"), LAMBDA timestamp_elements :
        [i \in 1..Len(message_bodies) |->
            [sender |-> IF i <= Len(sender_elements) THEN sender_elements[i]
                        ELSE "Unknown",
             text |-> message_bodies[i],
             timestamp |-> IF i <= Len(timestamp_elements)
                           THEN timestamp_elements[i] ELSE "Unknown"]])))

\* read_direct_messages(ctx, conversation_id): faults are the steps that
\* fail, api what the messages API answers, thread the nodes the page shows
\* once the conversation is open.
read_direct_messages(W, conversation_id, faults, api, thread) ==
    IF W.url # "messaging" /\ "goto" \in faults
    THEN Return(Err("Failed to read messages: PlaywrightError"), W, NoTrace)
    ELSE
    Bind(app_ensure_thread_opened([W EXCEPT !.url = "messaging"], conversation_id,
                                  faults), LAMBDA eto :
    Bind([NoTrace EXCEPT !.opened = IF eto.ret THEN "yes" ELSE "no",
                         !.clicked = eto.clicked,
                         !.navigated = W.url # "messaging",
                         !.shown = eto.W.open], LAMBDA tr1 :
        IF ~eto.ret
        THEN Return(Err("Failed to open conversation"), eto.W, tr1)
        ELSE IF "evaluate" \in faults
        THEN Return(Err("Failed to read messages: PlaywrightError"), eto.W, tr1)
        ELSE IF api # <<>>
        THEN Return(Ok(api), eto.W, [tr1 EXCEPT !.source = "api"])
        ELSE
    Bind(IF "scrape" \in faults THEN <<>> ELSE scrape_messages(thread),
         LAMBDA scraped_messages :
        IF scraped_messages = <<>>
        THEN Return(Err("Failed to fetch messages"), eto.W,
                    [tr1 EXCEPT !.nodes = thread])
        ELSE Return(Ok(scraped_messages), eto.W,
                    [tr1 EXCEPT !.source = "ui", !.nodes = thread]))))

\* The limit arguments callers pass.
Limits == -1..MaxLimit

\* The cards of each build's runs: the lu build queries only
\* .msg-conversation-listitem, so its lists hold the legacy cards.
BuildCards(bld) ==
    IF bld = "app" THEN Cards ELSE {c \in Cards : c.cls = CardSelectors[3]}

\* The conversation lists the page can render: a list shows a card once and
\* a conversation once.
DomLists(bld) ==
    {d \in SeqsUpTo(BuildCards(bld), MaxCards) :
        \A i, j \in 1..Len(d) :
            i # j => /\ d[i] # d[j]
                     /\ (d[i].cid = None \/ d[i].cid # d[j].cid)}

\* The steps failing in the authorization check of one call: none, its goto,
\* its wait, or both gotos of a check made away from linkedin.com.
AuthFaults == {{}, {"auth_goto"}, {"auth_nav"}, {"auth_goto", "url_goto"}}

\* The steps failing in one call that opens a thread.
OpenFaults ==
    AuthFaults \cup {{"goto"}, {"no_container"}, {"click"}, {"wait_open"}}

NoArgs == [limit |-> DefaultLimit, query |-> FALSE, thread_id |-> "", order |-> <<>>]

NoAnswers ==
    [faults |-> {}, fetch |-> [i \in 1..MaxMsgs |-> "ok"], ui |-> "sent",
     move |-> "moved", profile |-> "full", emptyPolls |-> 0,
     conv |-> [gotoFails |-> FALSE, failing |-> {}, reloadFails |-> FALSE,
               api |-> [kind |-> "null", items |-> <<>>], reloaded |-> <<>>]]

Idle ==
    [tool_name |-> "none", args |-> NoArgs, kind |-> "idle", env |-> NoEnvelope,
     exc |-> None, trace |-> NoTrace, before |-> EmptyMap]

Init ==
    /\ build \in Builds
    /\ session \in BOOLEAN
    /\ url = "other"
    /\ dom = <<>>
    /\ open = None
    /\ inbox = [t \in ThreadIds |-> 0]
    /\ files = EmptyMap
    /\ lru = EmptyMap
    /\ calls = 0
    /\ issued = {}
    /\ last = Idle
    /\ tasks = <<>>

\* The call of tool with args has ended with outcome out.
Finish(tool, args, out) ==
    /\ url' = out.W.url
    /\ dom' = out.W.dom
    /\ open' = out.W.open
    /\ files' = out.W.files
    /\ lru' = out.W.lru
    /\ last' = [tool_name |-> tool, args |-> args, kind |-> out.kind, env |-> out.env,
                exc |-> out.exc, trace |-> out.trace, before |-> files]
    /\ calls' = calls + 1
    /\ issued' = issued \cup synthetic_ids(tool, out)
    /\ UNCHANGED <<build, session, inbox, tasks>>

\* execute_toolcall of the running build.
execute_toolcall(tool, args, b) ==
    IF build = "app" THEN app_execute_toolcall(session, World, tool, args, b)
    ELSE lu_execute_toolcall(session, World, inbox, tool, args, b)

\* One call of execute_toolcall(ctx, tool, args) with the browser answering b.
Call(tool, args, b) ==
    \E out \in {execute_toolcall(tool, args, b)} : Finish(tool, args, out)

(* --------------------------- tool calls ------------------------------- *)

\* The caller makes one call at a time: the next call, and whatever the
\* page and the mailbox do meanwhile, come after the outcome is taken.
Ready == last = Idle /\ calls < MaxCalls

\* The orders in which label_threads can meet the ids of a set.
Orders(ids) ==
    {o \in SeqsUpTo(ids, Cardinality(ids)) :
        Len(o) = Cardinality(ids) /\ Range(o) = ids}

CheckLoginStatus ==
    /\ Ready
    /\ \E f \in {{}, {"auth_goto"}, {"auth_nav"}, {"page"}}, pr \in ProfileOutcomes :
         /\ pr # "full" => f = {}
         /\ Call("check_login_status", NoArgs, [NoAnswers EXCEPT !.faults = f, !.profile = pr])

SignOut ==
    /\ Ready
    /\ \E f \in {{}, {"auth_goto"}, {"auth_nav"}, {"goto"}} :
         Call("sign_out", NoArgs, [NoAnswers EXCEPT !.faults = f])

\* A tool name the running build does not dispatch.
UnknownTool ==
    /\ Ready
    /\ \E tool \in (LuTools \cup AppTools \cup {"read_linkedin_conversations"})
                      \ (IF build = "app" THEN AppTools ELSE LuTools) :
         Call(tool, NoArgs, NoAnswers)

ListConversations ==
    /\ Ready
    /\ build = "app"
    /\ \E limit \in Limits :
         \E conv \in ConversationAnswers(url, dom, limit) :
            LET args == [NoArgs EXCEPT !.limit = limit]
            IN  Call("list_conversations", args, [NoAnswers EXCEPT !.conv = conv])

ExtractLinkedinInfo ==
    /\ Ready
    /\ build = "app"
    /\ \E f \in {{}, {"auth_goto"}, {"auth_nav"}, {"page"}}, pr \in ProfileOutcomes :
         /\ pr # "full" => f = {}
         /\ \E conv \in LET login_status ==
                            check_login_status(session, World,
                                               [NoAnswers EXCEPT !.faults = f])
                        IN  IF login_status.env.success
                               /\ login_status.env.result.is_logged_in
                               /\ pr = "full"
                            THEN ConversationAnswers(login_status.W.url, dom,
                                                     DefaultLimit)
                            ELSE {NoAnswers.conv} :
               Call("extract_linkedin_info", NoArgs, [NoAnswers EXCEPT !.faults = f, !.profile = pr,
                                                         !.conv = conv])

ListThreads ==
    /\ Ready
    /\ build = "lu"
    /\ \E limit \in Limits, query \in BOOLEAN,
          f \in AuthFaults \cup {{"goto"}, {"search"}, {"load"}, {"wait_list"}},
          e \in 0..Retries :
         /\ query <=> f = {"search"}
         /\ e # 0 => f = {}
         /\ LET args == [NoArgs EXCEPT !.limit = limit, !.query = query]
            IN  Call("list_threads", args,
                     [NoAnswers EXCEPT !.faults = f, !.emptyPolls = e])

EnterThread ==
    /\ Ready
    /\ build = "lu"
    /\ \E t \in ThreadArgs, f \in OpenFaults, fetch \in [1..MaxMsgs -> FetchOutcomes] :
         /\ fetch # NoAnswers.fetch => f = {}
         /\ LET args == [NoArgs EXCEPT !.thread_id = t]
            IN  Call("enter_thread", args, [NoAnswers EXCEPT !.faults = f, !.fetch = fetch])

ForwardThread ==
    /\ Ready
    /\ build = "lu"
    /\ \E t \in ThreadArgs, f \in OpenFaults, ui \in UiOutcomes :
         /\ ui # "sent" => f = {}
         /\ LET args == [NoArgs EXCEPT !.thread_id = t]
            IN  Call("forward_thread", args, [NoAnswers EXCEPT !.faults = f, !.ui = ui])

ReplyToThread ==
    /\ Ready
    /\ build = "lu"
    /\ \E t \in ThreadArgs, f \in OpenFaults, ui \in UiOutcomes :
         /\ ui # "sent" => f = {}
         /\ LET args == [NoArgs EXCEPT !.thread_id = t]
            IN  Call("reply_to_thread", args, [NoAnswers EXCEPT !.faults = f, !.ui = ui])

ComposeEmail ==
    /\ Ready
    /\ build = "lu"
    /\ \E f \in AuthFaults, ui \in UiOutcomes :
         /\ ui # "sent" => f = {}
         /\ Call("compose_email", NoArgs, [NoAnswers EXCEPT !.faults = f, !.ui = ui])

LabelThreads ==
    /\ Ready
    /\ build = "lu"
    /\ \E ids \in SUBSET ThreadIds,
          f \in {{}, {"goto"}, {"no_container"}, {"click"}, {"wait_open"}},
          mv \in MoveOutcomes :
         /\ mv # "moved" => f = {}
         /\ \E order \in Orders(ids) :
               LET args == [NoArgs EXCEPT !.order = order]
               IN  Call("label_threads", args, [NoAnswers EXCEPT !.faults = f, !.move = mv])

\* The caller takes the outcome of the call.
Deliver ==
    /\ last # Idle
    /\ last' = Idle
    /\ UNCHANGED <<build, session, url, dom, open, inbox, files, lru, calls, issued,
                   tasks>>

(* -------------------------- the environment --------------------------- *)

\* The conversation list changes: conversations come, go, or get new content.
Render ==
    /\ Ready
    /\ \E d \in DomLists(build) : d # dom /\ dom' = d
    /\ UNCHANGED <<build, session, url, open, inbox, files, lru, calls, issued, last,
                   tasks>>

\* A message arrives in a thread.
Arrive ==
    /\ Ready
    /\ build = "lu"
    /\ \E t \in ThreadIds :
         /\ inbox[t] < MaxMsgs
         /\ inbox' = [inbox EXCEPT ![t] = @ + 1]
    /\ UNCHANGED <<build, session, url, dom, open, files, lru, calls, issued, last,
                   tasks>>

\* The user logs in, or the session ends.
SessionChange ==
    /\ Ready
    /\ session' = ~session
    /\ UNCHANGED <<build, url, dom, open, inbox, files, lru, calls, issued, last,
                   tasks>>

\* The page is taken elsewhere between two calls (the agent's go_to_url).
Navigate ==
    /\ Ready
    /\ \E u \in Urls : u # url /\ url' = u
    /\ UNCHANGED <<build, session, dom, open, inbox, files, lru, calls, issued, last,
                   tasks>>

\* A direct call of read_direct_messages, which src/app defines and its
\* execute_toolcall does not dispatch.
ReadDirectMessages ==
    /\ Ready
    /\ build = "app"
    /\ \E id \in ThreadArgs, api \in ApiMessages, thread \in ThreadDoms,
          f \in {{}, {"goto"}, {"click"}, {"wait_open"}, {"evaluate"}, {"scrape"}} :
         /\ api # <<>> => f = {} /\ thread = <<>>
         /\ f \notin {{}, {"scrape"}} => thread = <<>>
         /\ LET args == [NoArgs EXCEPT !.thread_id = id]
            IN  \E out \in {read_direct_messages(World, id, f, api, thread)} :
                    Finish("read_direct_messages", args, out)

\* The agent asks which tools it may call.
AvailableToolcalls ==
    /\ Ready
    /\ \E f \in {{}, {"auth_goto"}, {"auth_nav"}} :
         \E out \in {get_context_aware_available_toolcalls(build, session, World, f)} :
            Finish("get_context_aware_available_toolcalls", NoArgs, out)

Next ==
    \/ AvailableToolcalls
    \/ ReadDirectMessages
    \/ CheckLoginStatus
    \/ SignOut
    \/ UnknownTool
    \/ ListConversations
    \/ ExtractLinkedinInfo
    \/ ListThreads
    \/ EnterThread
    \/ ForwardThread
    \/ ReplyToThread
    \/ ComposeEmail
    \/ LabelThreads
    \/ Deliver
    \/ Render
    \/ Arrive
    \/ SessionChange
    \/ Navigate

Spec == Init /\ [][Next]_vars

(* ------- get_current_threads, one await at a time (src/linkedln-use) ---- *)

\* A loop turn that leaves retries as it was.
after_query_kept(retries) == retries

\* retries -= 1
after_query(retries) == retries - 1

\* The coroutine of get_current_threads once ensure_authorized has passed,
\* about to wait for the list: threads = [] and retries = 5 are set when the
\* waits return.
PollingTask ==
    [pc |-> "wait_list", retries |-> Retries, threads |-> <<>>, polls |-> 0,
     result |-> <<>>]

InitPolling ==
    /\ build = "lu"
    /\ session = TRUE
    /\ url = "messaging"
    /\ dom \in DomLists("lu")
    /\ open = None
    /\ inbox = [t \in ThreadIds |-> 0]
    /\ files = EmptyMap
    /\ lru = EmptyMap
    /\ calls = 0
    /\ issued = {}
    /\ last = Idle
    /\ tasks = << PollingTask >>

\* What a step of the coroutine leaves alone.
PageUnchanged ==
    UNCHANGED <<build, session, url, dom, open, inbox, lru, calls, issued, last>>

\* The two wait_for_selector calls return: the list and an item are there.
ListSeen ==
    /\ tasks[1].pc = "wait_list"
    /\ query_selector_all(Visible(World), CardSelectors[3]) # <<>>
    /\ tasks' = [tasks EXCEPT ![1].pc = "loop"]
    /\ PageUnchanged
    /\ UNCHANGED files

\* A wait times out after its 5000 ms: return response_model(result=[]).
ListTimeout ==
    /\ tasks[1].pc = "wait_list"
    /\ query_selector_all(Visible(World), CardSelectors[3]) = <<>>
    /\ tasks' = [tasks EXCEPT ![1].pc = "done", ![1].result = no_messages_found.result]
    /\ PageUnchanged
    /\ UNCHANGED files

\* while threads == [] and retries > 0
LoopTest ==
    /\ tasks[1].pc = "loop"
    /\ tasks' = [tasks EXCEPT ![1].pc =
                    IF tasks[1].threads = <<>> /\ tasks[1].retries > 0
                    THEN "sleep" ELSE "cards"]
    /\ PageUnchanged
    /\ UNCHANGED files

\* await page.wait_for_timeout(1000) returns.
Sleep ==
    /\ tasks[1].pc = "sleep"
    /\ tasks' = [tasks EXCEPT ![1].pc = "query"]
    /\ PageUnchanged
    /\ UNCHANGED files

\* threads = await page.query_selector_all(...); retries -= 1
Query ==
    /\ tasks[1].pc = "query"
    /\ tasks' = [tasks EXCEPT
                    ![1].pc = "loop",
                    ![1].threads = query_selector_all(Visible(World), CardSelectors[3]),
                    ![1].retries = after_query(@),
                    ![1].polls = @ + 1]
    /\ PageUnchanged
    /\ UNCHANGED files

\* The card loop and the return of the results.
CardLoop ==
    /\ tasks[1].pc = "cards"
    /\ \E out \in {thread_loop(tasks[1].threads, DefaultLimit, 0, <<>>, files)} :
         /\ tasks' = [tasks EXCEPT ![1].pc = "done", ![1].result = out.results]
         /\ files' = out.files
    /\ PageUnchanged

\* The list is rendered again while the coroutine is suspended.
RenderMeanwhile ==
    /\ tasks[1].pc # "done"
    /\ \E d \in DomLists("lu") : d # dom /\ dom' = d
    /\ UNCHANGED <<build, session, url, open, inbox, files, lru, calls, issued, last,
                   tasks>>

NextPolling ==
    \/ ListSeen
    \/ ListTimeout
    \/ LoopTest
    \/ Sleep
    \/ Query
    \/ CardLoop
    \/ RenderMeanwhile

\* Every wait of the coroutine returns or times out, and the event loop
\* resumes a coroutine that can go on.
SpecPolling ==
    /\ InitPolling
    /\ [][NextPolling]_vars
    /\ WF_vars(ListSeen \/ ListTimeout \/ LoopTest \/ Sleep \/ Query \/ CardLoop)

(* ------- enter_thread, two coroutines on one page (src/linkedln-use) --- *)

\* execute_toolcall and the handlers are coroutines on the BrowserContext
\* they are given; they take no lock, so a coroutine suspended at an await
\* leaves the event loop free to resume another one on the same page.

\* The coroutine of execute_toolcall(ctx, 'enter_thread', {thread_id}) at its
\* first statement.  opened is how its ensure_thread_opened ended, elements
\* the div[data-message-id] ids it got, shown the thread the page showed when
\* it asked for them.
EnterTask(thread_id) ==
    [pc |-> "start", thread_id |-> thread_id, opened |-> "n/a", scraped |-> FALSE,
     elements |-> <<>>, shown |-> None, next |-> 1, mails |-> <<>>,
     kind |-> "none", result |-> None]

InitOverlap ==
    /\ build = "lu"
    /\ session = TRUE
    /\ url = "messaging"
    /\ dom \in DomLists("lu")
    /\ open = None
    /\ inbox \in [ThreadIds -> 0..MaxMsgs]
    /\ files = EmptyMap
    /\ lru = EmptyMap
    /\ calls = 0
    /\ issued = {}
    /\ last = Idle
    /\ \E a, b \in ThreadIds : tasks = << EnterTask(a), EnterTask(b) >>

\* enter_thread from its first statement to its first await after the cache
\* test, the other coroutine not being resumed meanwhile: ensure_authorized,
\* the thread_id test, ensure_thread_opened (its result dropped) and
\* has_cached_element.
enter_thread_begin(W, task, faults) ==
    Bind(ensure_authorized(session, W, faults), LAMBDA auth :
        IF auth.exc # None
        THEN [task |-> [task EXCEPT !.pc = "done", !.kind = "raise"], W |-> auth.W]
        ELSE IF task.thread_id = ""
        THEN [task |-> [task EXCEPT !.pc = "done", !.kind = "return"], W |-> auth.W]
        ELSE
    Bind(ensure_thread_opened(auth.W, task.thread_id, faults), LAMBDA eto :
        IF eto.exc # None
        THEN [task |-> [task EXCEPT !.pc = "done", !.kind = "raise",
                                    !.opened = opened_as(eto)],
              W |-> eto.W]
        ELSE IF has_cached_element(eto.W.files, ThreadKey(task.thread_id))
        THEN Bind(query_cached_element(eto.W.files, eto.W.lru,
                                       ThreadKey(task.thread_id)), LAMBDA q :
                [task |-> [task EXCEPT !.pc = "done", !.kind = "return",
                                       !.opened = opened_as(eto),
                                       !.result = q.value],
                 W |-> [eto.W EXCEPT !.lru = q.lru]])
        ELSE [task |-> [task EXCEPT !.pc = "query", !.opened = opened_as(eto)],
              W |-> eto.W]))

\* enter_thread from the end of its loop to its return: no await is left, so
\* it runs in one piece.
enter_thread_store(W, task) ==
    Bind([thread_id |-> task.thread_id, mails |-> task.mails], LAMBDA mail_thread :
        [task |-> [task EXCEPT !.pc = "done", !.kind = "return",
                               !.result = mail_thread],
         W |-> [W EXCEPT !.files =
                   cache_element(
                       cache_element(W.files, DirectUrlKey(task.thread_id), W.url),
                       ThreadKey(task.thread_id), mail_thread)]])

\* Coroutine i has gone on to task, leaving the page and the cache as W.
Resumed(i, task, W) ==
    /\ tasks' = [tasks EXCEPT ![i] = task]
    /\ url' = W.url
    /\ dom' = W.dom
    /\ open' = W.open
    /\ files' = W.files
    /\ lru' = W.lru
    /\ UNCHANGED <<build, session, inbox, calls, issued, last>>

\* A coroutine runs up to its await of page.query_selector_all; the click or
\* the wait of its ensure_thread_opened may fail.
Begin ==
    \E i \in DOMAIN tasks, f \in {{}, {"click"}, {"wait_open"}} :
        /\ tasks[i].pc = "start"
        /\ \E r \in {enter_thread_begin(World, tasks[i], f)} : Resumed(i, r.task, r.W)

\* mail_elements = await page.query_selector_all('div[data-message-id]'): the
\* elements of the thread the page shows now.  With no element the loop is
\* over at once.
QueryMails ==
    \E i \in DOMAIN tasks :
        /\ tasks[i].pc = "query"
        /\ \E task \in {[tasks[i] EXCEPT !.scraped = TRUE,
                                         !.elements = message_elements(World, inbox),
                                         !.shown = open]} :
             IF task.elements = <<>>
             THEN \E r \in {enter_thread_store(World, task)} : Resumed(i, r.task, r.W)
             ELSE Resumed(i, [task EXCEPT !.pc = "fetch"], World)

\* One turn of the loop over mail_elements: get_attribute and
\* extract_mail_message_detail; after the last turn the thread is stored.
FetchMail ==
    \E i \in DOMAIN tasks, outcome \in FetchOutcomes :
        /\ tasks[i].pc = "fetch"
        /\ \E e \in {extract_mail_message_detail(files, lru,
                        tasks[i].elements[tasks[i].next], outcome)} :
           \E W \in {[World EXCEPT !.files = e.files, !.lru = e.lru]} :
           \E task \in {[tasks[i] EXCEPT
                            !.next = @ + 1,
                            !.mails = IF e.value = None THEN @
                                      ELSE Append(@, e.value)]} :
             IF e.raises
             THEN Resumed(i, [tasks[i] EXCEPT !.pc = "done", !.kind = "raise"], W)
             ELSE IF task.next <= Len(task.elements)
             THEN Resumed(i, task, W)
             ELSE \E r \in {enter_thread_store(W, task)} : Resumed(i, r.task, r.W)

NextOverlap ==
    \/ Begin
    \/ QueryMails
    \/ FetchMail

\* Two calls of execute_toolcall(ctx, 'enter_thread', ...) made on one
\* context without waiting for the first to end.
SpecOverlap == InitOverlap /\ [][NextOverlap]_vars

(* ----------------------------- properties ------------------------------ *)

\* The last call returned an envelope.
Returned == last.kind = "return"

\* The tools that enumerate the conversation list.
Enumerations == {"list_conversations", "list_threads"}

\* The last call is an enumeration that returned the records of a card list.
FromCards ==
    /\ last.tool_name \in Enumerations
    /\ Returned
    /\ last.env.success
    /\ last.trace.source \in {"dom", "reload"}

\* How many cards of the list the limit lets the loop reach.
Reach == Max(0, Min(Len(last.trace.seen), last.args.limit))

\* A text was extracted and is not empty.
NonEmpty(v) == v \notin {Missing, None, ""}

\* The card yields a record: the app build needs a participant or a preview
\* from some candidate, the lu build needs its three selectors to match.
YieldsRecord(c) ==
    IF build = "app"
    THEN \E sel \in Range(ParticipantSelectors) \cup Range(PreviewSelectors) :
            NonEmpty(c.text[sel])
    ELSE \A sel \in {ParticipantSelectors[2], PreviewSelectors[2],
                     ThreadTimestampSelector} : c.text[sel] # Missing

\* C1: every envelope a tool call returns has success = (error is null):
\* success is false whenever error is set and true whenever it is null.
EnvelopeStatus == Returned => (last.env.success <=> last.env.error = None)

\* The except clause of execute_toolcall has turned an exception into an
\* error envelope.
EnvelopeStatusWitness ==
    /\ Returned
    /\ last.tool_name = "forward_thread"
    /\ last.env.error
          = "Action forward_thread failed, the user should do it manually."
    /\ ~last.env.success

NonPositiveLimitGivesNone ==
    (/\ last.tool_name \in Enumerations
     /\ Returned
     /\ last.env.success
     /\ last.args.limit <= 0) => last.env.result = <<>>

\* s is an initial part of t.
IsPrefix(s, t) == Len(s) <= Len(t) /\ SubSeq(t, 1, Len(s)) = s

\* The last call ran get_current_conversations past its navigation.
Scraped ==
    /\ build = "app"
    /\ last.tool_name \in {"list_conversations", "extract_linkedin_info"}
    /\ Returned
    /\ last.trace.attempts # <<>>

FirstNonEmpty(c, selectors, default) ==
    LET hits == {i \in 1..Len(selectors) : NonEmpty(c.text[selectors[i]])}
    IN  IF hits = {} THEN default
        ELSE c.text[selectors[CHOOSE i \in hits : \A j \in hits : i <= j]]

\* C5: each field of a record is the text of the first candidate selector
\* whose extraction is non-empty, the default only when none is.  Stated on
\* the batches in which every card reached has its record, so that record i
\* is card i.
FirstNonEmptyWins ==
    (/\ FromCards
     /\ last.tool_name = "list_conversations"
     /\ Len(last.env.result) = Reach) =>
        \A i \in 1..Reach :
            LET c == last.trace.seen[i]
                r == last.env.result[i]
            IN  /\ r.participant_name
                      = FirstNonEmpty(c, ParticipantSelectors, "Unknown Contact")
                /\ r.message_preview = FirstNonEmpty(c, PreviewSelectors, "")
                /\ r.timestamp = FirstNonEmpty(c, TimestampSelectors, "Recent")

\* Some field of the card resolves, by the selectors of the running build.
SomeFieldResolves(c) ==
    IF build = "app"
    THEN \E sel \in Range(ParticipantSelectors) \cup Range(PreviewSelectors) :
            NonEmpty(c.text[sel])
    ELSE \E sel \in {ParticipantSelectors[2], PreviewSelectors[2],
                     ThreadTimestampSelector} : NonEmpty(c.text[sel])

\* C6: a field that fails to resolve never drops the card's record: every
\* card reached of which some field resolves has its record in the batch.
NoCardDropped ==
    FromCards =>
        Len(last.env.result)
            >= Cardinality({i \in 1..Reach : SomeFieldResolves(last.trace.seen[i])})

\* C7: the only exception execute_toolcall lets escape is UnauthorizedAccess.
OnlyUnauthorizedEscapes ==
    last.kind = "raise" => last.exc = "UnauthorizedAccess"

\* The tools that need a session.
SessionTools ==
    {"list_threads", "list_conversations", "enter_thread", "reply_to_thread",
     "forward_thread", "compose_email", "extract_linkedin_info"}

\* C8: when the authorization check reports not-logged-in, a tool that needs
\* a session raises UnauthorizedAccess; it returns no envelope, and raises
\* nothing else.
NotLoggedInRaises ==
    (last.tool_name \in SessionTools /\ last.trace.authOk = "no")
        => (last.kind = "raise" /\ last.exc = "UnauthorizedAccess")

\* C9: after an enumeration the data stored for a conversation is what that
\* enumeration produced: the stored element of each card it recorded is the
\* card it saw.
StoredIsLatest ==
    (FromCards /\ last.tool_name = "list_threads") =>
        \A i \in 1..Reach :
            LET c == last.trace.seen[i]
            IN  (YieldsRecord(c) /\ NonEmpty(c.cid)) =>
                    /\ ElementKey(c.cid) \in DOMAIN files
                    /\ files[ElementKey(c.cid)] = c.html

\* C10: enter_thread returns the messages the open thread shows at the time
\* of the call, never those of an earlier call.
EnterThreadIsFresh ==
    (last.tool_name = "enter_thread" /\ Returned /\ last.env.success)
        => last.env.result.mails = last.trace.fresh

\* The tools that open a thread before they act on it.
OpeningTools == {"enter_thread", "forward_thread", "reply_to_thread"}

\* C11: a synthetic conversation identifier used to open a thread is
\* rejected: ensure_thread_opened answers False and clicks no card, whatever
\* the list shows by then.
SyntheticIdRejected ==
    (/\ last.tool_name \in OpeningTools
     /\ last.args.thread_id \in issued
     /\ last.trace.opened # "n/a")
        => (last.trace.opened = "no" /\ last.trace.clicked = None)

\* An id issued for the card at position 0 is used after the list changed:
\* position 0 now holds a conversation with a platform id.
SyntheticIdRejectedWitness ==
    /\ last.tool_name = "enter_thread"
    /\ last.args.thread_id = "0"
    /\ "0" \in issued
    /\ last.trace.opened = "no"
    /\ url = "messaging"
    /\ dom # <<>>
    /\ dom[1].cid # None

\* C12: after a sign_out call that returns a success envelope no cached entry
\* remains: no file is left and the memo of query_cached_element is empty,
\* whatever the authorization state was.
SignOutClearsCache ==
    (last.tool_name = "sign_out" /\ Returned /\ last.env.success)
        => /\ files = EmptyMap
           /\ \A k \in DOMAIN lru : lru[k] \in STRING /\ lru[k] = None

\* C13: an enumeration that still finds no conversation after every selector
\* candidate and the one reload-and-retry returns an empty result with error
\* null and success true.
EmptyAfterReloadSucceeds ==
    (/\ Scraped
     /\ last.tool_name = "list_conversations"
     /\ last.trace.source = "reload"
     /\ last.trace.seen = <<>>)
        => /\ last.env.error = None
           /\ last.env.success
           /\ last.env.result = <<>>

\* The page was reloaded and no selector matched a card in the new list.
EmptyAfterReloadSucceedsWitness ==
    /\ Scraped
    /\ last.tool_name = "list_conversations"
    /\ last.trace.attempts = <<"dom", "api", "reload">>
    /\ last.trace.source = "reload"
    /\ last.trace.seen = <<>>
    /\ last.env.success

\* The cards the messaging view shows to the lu build's list query.
ShownThreads == query_selector_all(Visible(World), CardSelectors[3])

\* C14: a timed-out wait for the messaging container is a hard failure, so an
\* empty result with error null comes only from a list that was seen and
\* held no conversation.
EmptyOnlyWhenSeenEmpty ==
    (/\ last.tool_name = "list_threads"
     /\ Returned
     /\ last.trace.source = "timeout"
     /\ last.env.error = None) => ShownThreads = <<>>

\* C15 as stated: within one enumeration call the conversation list is
\* queried once and once more after one reload-and-retry; nothing else polls
\* or retries.
AtMostOneRequery ==
    (last.tool_name \in Enumerations /\ Returned) => last.trace.polls <= 2

\* C15 as amended: get_current_conversations re-queries the list only after
\* its one reload; get_current_threads reloads nothing and polls the list
\* while it is empty, at most five queries in all.
RequeryBounded ==
    (last.tool_name \in Enumerations /\ Returned) =>
        IF build = "app"
        THEN /\ last.trace.polls <= 2
             /\ last.trace.polls = 2 => last.trace.source = "reload"
        ELSE /\ last.trace.polls <= Retries
             /\ last.trace.polls > 1 => "reload" \notin Range(last.trace.attempts)

\* The polling loop has found the list at its third query.
RequeryBoundedWitness ==
    /\ last.tool_name = "list_threads"
    /\ Returned
    /\ last.trace.polls = 3
    /\ last.env.result # <<>>


\* The places in the batch of the records that carry a positional identity:
\* a thread_id that is no data-conversation-id.
Positional(batch) == {k \in 1..Len(batch) : batch[k].thread_id \notin ThreadIds}

\* C16: in every batch of get_current_threads the positional identities of
\* the records are pairwise distinct and each lies in [0, batch_size), where
\* batch_size is the number of records returned.
PositionalIdsWithinBatch ==
    (last.tool_name = "list_threads" /\ Returned /\ last.env.success) =>
        LET batch == last.env.result
        IN  /\ \A k \in Positional(batch) :
                 batch[k].thread_id \in {ToString(j) : j \in 0..(Len(batch) - 1)}
            /\ \A k, m \in Positional(batch) :
                 k # m => batch[k].thread_id # batch[m].thread_id


\* C17: when the wait that confirms the thread after the click on its card
\* times out, ensure_thread_opened does not raise: it returns False to the
\* tool that called it.
OpenTimeoutIsSoft ==
    (last.tool_name \in OpeningTools /\ last.trace.clicked # None) =>
        last.trace.opened # "raised"


\* C19: a thread-open whose stored positional index is not below the number
\* of cards the list shows fails with an error and clicks no element.
OutOfRangeOpenFails ==
    (/\ last.tool_name \in OpeningTools
     /\ last.trace.opened # "n/a"
     /\ last.args.thread_id \in issued
     /\ last.args.thread_id
            \notin {ToString(j) : j \in 0..(Len(ShownThreads) - 1)})
        => /\ last.trace.clicked = None
           /\ Returned
           /\ ~last.env.success


\* The message nodes of a thread and, for the k-th of them, its place among
\* the nodes.
MessagePlaces(thread) == {p \in 1..Len(thread) : thread[p].node = "message"}

PlaceOf(thread, k) ==
    CHOOSE p \in MessagePlaces(thread) :
        Cardinality({q \in MessagePlaces(thread) : q <= p}) = k

\* The time fragments seen when the node at place p is processed: those of
\* the message nodes up to it.
TimesSeen(thread, p) ==
    {thread[q].time : q \in {r \in MessagePlaces(thread) : r <= p}} \ {Missing}

DividerSeen(thread, p) == \E q \in 1..(p - 1) : thread[q].node = "divider"

\* C20: a scraped message's timestamp is built only from what precedes the
\* message in document order: it is unresolved unless a date divider and a
\* time fragment have been seen by then, and a resolved one carries a time
\* fragment seen by then, never a later one.
TimestampFromPrecedingOnly ==
    (last.tool_name = "read_direct_messages" /\ Returned /\ last.env.success
        /\ last.trace.source = "ui") =>
        \A k \in 1..Len(last.env.result) :
            LET p == PlaceOf(last.trace.nodes, k)
                timestamp == last.env.result[k].timestamp
            IN  \/ timestamp \in {None, "Unknown"}
                \/ /\ DividerSeen(last.trace.nodes, p)
                   /\ timestamp \in TimesSeen(last.trace.nodes, p)


\* C21: no message with an empty body text is in the output of a message
\* read, whether the messages come from the API or from the page.
NoEmptyBody ==
    (last.tool_name = "read_direct_messages" /\ Returned /\ last.env.success) =>
        \A k \in 1..Len(last.env.result) : last.env.result[k].text # ""


\* C22: whenever has_cached_element(k) is true, query_cached_element(k)
\* returns the value stored under k, also when k was queried before it was
\* stored.
QueryReturnsStored ==
    \A k \in DOMAIN files :
        LET value == query_cached_element(files, lru, k).value
        IN  ToString(value) = ToString(files[k])


\* C23: when ensure_thread_opened does not open the conversation of
\* thread_id, enter_thread returns no thread scraped from the page and
\* stores no snapshot under that id.
EnterThreadNeedsOpenThread ==
    (last.tool_name = "enter_thread" /\ last.trace.opened = "no") =>
        /\ last.trace.served # "fresh"
        /\ (ThreadKey(last.args.thread_id) \in DOMAIN files
                => ThreadKey(last.args.thread_id) \in DOMAIN last.before)


\* The tools that send a message about a thread.
SendingTools == {"forward_thread", "reply_to_thread"}

\* The authorization check passed, thread_id is not empty and
\* ensure_thread_opened returned True.
ClearedToSend ==
    /\ last.trace.authOk = "yes"
    /\ last.args.thread_id # ""
    /\ last.trace.opened = "yes"

\* C24: reply_to_thread and forward_thread click the send button only after
\* the authorization check passed, thread_id was not empty and
\* ensure_thread_opened returned True; otherwise the call ends, before any
\* compose step, with an error envelope or UnauthorizedAccess.
SendOnlyWhenOpened ==
    (build = "lu" /\ last.tool_name \in SendingTools) =>
        \/ ClearedToSend
        \/ /\ ~last.trace.sent
           /\ \/ last.kind = "raise" /\ last.exc = "UnauthorizedAccess"
              \/ /\ Returned
                 /\ ~last.env.success
                 /\ last.env.error \in
                        {"Thread ID cannot be empty or n/a.",
                         "Thread not found or not opened.",
                         "Action " \o last.tool_name
                            \o " failed, the user should do it manually."}

\* A reply was sent in a thread whose card was clicked and opened.
SendOnlyWhenOpenedWitness ==
    /\ last.tool_name = "reply_to_thread"
    /\ ClearedToSend
    /\ last.trace.sent
    /\ last.trace.clicked = last.args.thread_id


\* C25: label_threads puts every distinct non-empty id in exactly one of
\* moved, failed and not found, and returns a success envelope that reports
\* them.
LabelThreadsReports ==
    (build = "lu" /\ last.tool_name = "label_threads") =>
        /\ Returned
        /\ last.env.success
        /\ Len(last.trace.seen) = Len(last.args.order)
        /\ Range(last.trace.seen) = Range(last.args.order)


\* The names the running build can advertise.
Advertisable == Range(IF build = "app" THEN app_toolcalls ELSE lu_toolcalls)

\* C26: the advertised list depends on the answer of the authorization
\* check alone: check_login_status is always in it, sign_out exactly when
\* the check failed, every other tool exactly when it passed.
ToolListByAuthorization ==
    (last.tool_name = "get_context_aware_available_toolcalls") =>
        \A name \in Advertisable :
            (name \in Range(last.env.result)) <=>
                IF name = "check_login_status" THEN TRUE
                ELSE IF name = "sign_out" THEN last.trace.authOk = "no"
                ELSE last.trace.authOk = "yes"

\* The list of an authorized session: every tool but sign_out.
ToolListByAuthorizationWitness ==
    /\ last.tool_name = "get_context_aware_available_toolcalls"
    /\ last.trace.authOk = "yes"
    /\ Range(last.env.result) = Advertisable \ {"sign_out"}
    /\ Len(last.env.result) > 2


\* The tool names given to execute_toolcall.
ExecutedTools == LuTools \cup AppTools \cup {"read_linkedin_conversations"}

AnsweredUnknown ==
    /\ Returned
    /\ ~last.env.success
    /\ last.env.error = "Unknown tool call: " \o last.tool_name

\* Every name the build can advertise is dispatched, and any other name is
\* answered 'Unknown tool call' with success false.
AdvertisedIsDispatched ==
    (last.tool_name \in ExecutedTools) =>
        IF last.tool_name \in Advertisable THEN ~AnsweredUnknown
        ELSE /\ AnsweredUnknown
             /\ ~last.trace.navigated
             /\ last.trace.clicked = None
             /\ files = last.before

\* A call of execute_toolcall with a name the build does not advertise.
UnknownCall ==
    /\ last = Idle
    /\ last'.tool_name \in ExecutedTools \ Advertisable

\* C27: execute_toolcall dispatches every tool name that can be advertised;
\* a name outside that set is answered 'Unknown tool call' with success
\* false, and the call navigates nowhere, clicks nothing and leaves the
\* cache as it is.
UnknownToolHasNoEffect ==
    /\ []AdvertisedIsDispatched
    /\ [][UnknownCall => UNCHANGED <<url, dom, open, files, lru>>]_vars

\* An unknown name was answered after the cache had been filled.
UnknownToolHasNoEffectWitness ==
    /\ last.tool_name \in ExecutedTools \ Advertisable
    /\ AnsweredUnknown
    /\ files # EmptyMap
    /\ files = last.before


\* A status record whose is_logged_in is false names an error and no
\* profile.
StatusRecordSound ==
    LET status == last.env.result
    IN  ~status.is_logged_in =>
            /\ status.error # None
            /\ status.profile_name = None
            /\ status.profile_url = None

\* check_authorization answers False whenever its goto or its wait fails.
FailureGivesFalse ==
    \A f \in AuthFaults :
        ("auth_nav" \in f \/ (url = "other" /\ "auth_goto" \in f))
            => ~check_authorization(session, World, f).ok

\* C28 as stated: check_authorization answers False on any failure, and
\* get_login_status always returns a status record, in which is_logged_in =
\* false implies an error and no profile name or url.
AlwaysStatusRecord ==
    /\ FailureGivesFalse
    /\ (last.tool_name = "check_login_status") =>
            /\ Returned
            /\ last.env.success
            /\ StatusRecordSound

\* C28 as amended: get_login_status returns such a status record unless
\* ctx.get_current_page(), which it awaits before its try, raises; then
\* check_login_status answers an error envelope.
StatusRecordUnlessNoPage ==
    /\ FailureGivesFalse
    /\ (last.tool_name = "check_login_status") =>
            /\ Returned
            /\ IF last.env.success THEN StatusRecordSound
               ELSE last.env.error = "page unavailable"

\* A logged-in session whose authorization check failed: the record says
\* not logged in and names the error.
StatusRecordUnlessNoPageWitness ==
    /\ last.tool_name = "check_login_status"
    /\ Returned
    /\ last.env.success
    /\ session
    /\ ~last.env.result.is_logged_in
    /\ last.env.result.error = "Not logged in to LinkedIn"


\* C29: get_current_threads terminates when each of its waits returns or
\* times out: the polling loop queries the list at most five times and the
\* coroutine reaches its return.
PollingTerminates ==
    /\ [](tasks[1].polls <= Retries /\ tasks[1].retries >= 0)
    /\ <>(tasks[1].pc = "done")

\* The loop gave up after its fifth query of a list that stayed empty.
PollingTerminatesWitness ==
    /\ tasks # <<>>
    /\ tasks[1].pc = "done"
    /\ tasks[1].polls = Retries
    /\ tasks[1].threads = <<>>


\* C30: two tool calls on one context do not interleave, so a call reads the
\* page as its own steps left it: an enter_thread whose ensure_thread_opened
\* opened its thread gets the message elements of that thread.
ReadsOwnPage ==
    \A i \in DOMAIN tasks :
        (tasks[i].opened = "yes" /\ tasks[i].scraped)
            => tasks[i].shown = tasks[i].thread_id

=============================================================================
